---------------------------- MODULE Spec2Model ----------------------------
(***************************************************************************)
(* Comparison pipeline (generateAllResponses, executeComparisonPipeline,   *)
(* aggregateAndSaveResults) and the effective-model-id codec               *)
(* (parseEffectiveModelId, getModelDisplayLabel).                          *)
(*                                                                         *)
(* Strings that the code builds or takes apart (model ids, tags, labels)   *)
(* are sequences of one-character strings.  Temperatures are integers in   *)
(* hundredths (71 stands for 0.71).  An optional value is a sequence of    *)
(* length 0 (undefined) or 1.                                              *)
(***************************************************************************)
EXTENDS Integers, Sequences, FiniteSets, TLC

(***************************************************************************)
(* Characters and numbers                                                  *)
(***************************************************************************)
Digits == <<"0", "1", "2", "3", "4", "5", "6", "7", "8", "9">>

DigitChar(d) == Digits[d + 1]

IsDigit(c) == \E d \in 0..9 : Digits[d + 1] = c

DigitVal(c) == CHOOSE d \in 0..9 : Digits[d + 1] = c

Last(s) == s[Len(s)]

\* Number.prototype.toString for a non-negative integer.
RECURSIVE IntStr(_)
IntStr(n) == IF n < 10 THEN <<DigitChar(n)>>
             ELSE IntStr(n \div 10) \o <<DigitChar(n % 10)>>

\* Number.prototype.toString for h/100: no trailing zeros, no bare point.
NumToStr(h) ==
    LET int == h \div 100
        frac == h % 100
    IN  IF frac = 0 THEN IntStr(int)
        ELSE IF frac % 10 = 0 THEN IntStr(int) \o <<".", DigitChar(frac \div 10)>>
        ELSE IntStr(int) \o <<".", DigitChar(frac \div 10), DigitChar(frac % 10)>>

\* Number.prototype.toFixed(1) for h/100, h not ending in 5 (no tie to break).
ToFixed1(h) ==
    LET t == (h + 5) \div 10
    IN  IntStr(t \div 10) \o <<".", DigitChar(t % 10)>>

\* Position of the first / last occurrence of character c in s, 0 when absent.
IndexOf(s, c) ==
    IF \E i \in 1..Len(s) : s[i] = c
    THEN CHOOSE i \in 1..Len(s) : s[i] = c /\ \A j \in 1..(i - 1) : s[j] # c
    ELSE 0

LastIndexOf(s, c) ==
    IF \E i \in 1..Len(s) : s[i] = c
    THEN CHOOSE i \in 1..Len(s) : s[i] = c /\ \A j \in (i + 1)..Len(s) : s[j] # c
    ELSE 0

StartsWith(s, p) == Len(s) >= Len(p) /\ SubSeq(s, 1, Len(p)) = p

Drop(s, n) == SubSeq(s, n + 1, Len(s))

\* sub occurs in s as a contiguous run
Contains(s, sub) ==
    \E i \in 1..(Len(s) - Len(sub) + 1) : SubSeq(s, i, i + Len(sub) - 1) = sub

AllDigits(s) == Len(s) > 0 /\ \A i \in 1..Len(s) : IsDigit(s[i])

RECURSIVE DigitsVal(_)
DigitsVal(s) == IF Len(s) = 0 THEN 0
                ELSE 10 * DigitsVal(SubSeq(s, 1, Len(s) - 1)) + DigitVal(Last(s))

\* <number>: digits, optionally a point and digits.
IsNumber(s) ==
    LET p == IndexOf(s, ".")
    IN  IF p = 0 THEN AllDigits(s)
        ELSE AllDigits(SubSeq(s, 1, p - 1)) /\ AllDigits(Drop(s, p))

\* parseFloat of a <number> of at most two decimals, in hundredths.
ParseNumber(s) ==
    LET p == IndexOf(s, ".")
        int == IF p = 0 THEN s ELSE SubSeq(s, 1, p - 1)
        frac == IF p = 0 THEN <<>> ELSE Drop(s, p)
        f2 == SubSeq(frac \o <<"0", "0">>, 1, 2)
    IN  100 * DigitsVal(int) + DigitsVal(f2)

(***************************************************************************)
(* Effective model id codec                                                *)
(***************************************************************************)
TempOpen == <<"[", "t", "e", "m", "p", ":">>

SysOpen == <<"[", "s", "y", "s", ":">>

SpIdxOpen == <<"[", "s", "p", "_", "i", "d", "x", ":">>

IDEAL_MODEL_ID == <<"I", "D", "E", "A", "L", "_", "M", "O", "D", "E", "L", "_", "I", "D">>

IDEAL_MODEL_ID_BASE == IDEAL_MODEL_ID

IDEAL_BENCHMARK == <<"I", "D", "E", "A", "L", "_", "B", "E", "N", "C", "H", "M", "A", "R", "K">>

TempTag(numStr) == TempOpen \o numStr \o <<"]">>

SysTag(hash) == SysOpen \o hash \o <<"]">>

\* The bracketed tag at the tail of s: its opening position, 0 when s does
\* not end in a bracketed group.
TailOpen(s) ==
    IF Len(s) > 0 /\ Last(s) = "]" THEN LastIndexOf(s, "[") ELSE 0

EndsWithTempTag(s) ==
    LET i == TailOpen(s)
    IN  /\ i > 0
        /\ StartsWith(Drop(s, i - 1), TempOpen)
        /\ IsNumber(SubSeq(s, i + Len(TempOpen), Len(s) - 1))

EndsWithSysTag(s) ==
    LET i == TailOpen(s)
    IN  /\ i > 0
        /\ StartsWith(Drop(s, i - 1), SysOpen)
        /\ Len(s) - 1 >= i + Len(SysOpen)
        /\ \A j \in (i + Len(SysOpen))..(Len(s) - 1) : s[j] \notin {"[", "]"}

NoTags(base) == [baseId |-> base, temperature |-> <<>>, systemPromptHash |-> <<>>]

\* StripTags as the stale comment of the tests describes it: a temperature
\* tag is read only when it is the very last suffix.
StripTags_TempLastOnly(s, acc) ==
    LET i == TailOpen(s)
        j == TailOpen(SubSeq(s, 1, i - 1))
    IN  IF EndsWithTempTag(s)
        THEN LET rest == SubSeq(s, 1, i - 1)
             IN  IF EndsWithSysTag(rest)
                 THEN [baseId |-> SubSeq(rest, 1, j - 1),
                       temperature |->
                           <<ParseNumber(SubSeq(s, i + Len(TempOpen), Len(s) - 1))>>,
                       systemPromptHash |->
                           <<SubSeq(rest, j + Len(SysOpen), Len(rest) - 1)>>]
                 ELSE [acc EXCEPT !.baseId = rest,
                                  !.temperature =
                           <<ParseNumber(SubSeq(s, i + Len(TempOpen), Len(s) - 1))>>]
        ELSE IF EndsWithSysTag(s)
        THEN [acc EXCEPT !.baseId = SubSeq(s, 1, i - 1),
                         !.systemPromptHash =
                             <<SubSeq(s, i + Len(SysOpen), Len(s) - 1)>>]
        ELSE [acc EXCEPT !.baseId = s]

\* One trailing tag at a time is stripped and recorded by its type until the
\* tail is neither a [temp:<number>] nor a [sys:<token>] tag.
RECURSIVE StripTags(_, _)
StripTags(s, acc) ==
    LET i == TailOpen(s)
    IN  IF EndsWithTempTag(s)
        THEN StripTags(SubSeq(s, 1, i - 1),
                 [acc EXCEPT !.temperature =
                     <<ParseNumber(SubSeq(s, i + Len(TempOpen), Len(s) - 1))>>])
        ELSE IF EndsWithSysTag(s)
        THEN StripTags(SubSeq(s, 1, i - 1),
                 [acc EXCEPT !.systemPromptHash =
                     <<SubSeq(s, i + Len(SysOpen), Len(s) - 1)>>])
        ELSE [acc EXCEPT !.baseId = s]

\* parseEffectiveModelId without the legacy alias.
parseEffectiveModelId_NoAlias(id) == StripTags(id, NoTags(<<>>))

parseEffectiveModelId(id) ==
    IF id = IDEAL_BENCHMARK THEN NoTags(IDEAL_MODEL_ID_BASE)
    ELSE StripTags(id, NoTags(<<>>))

\* TempShown as it would be if only an undefined temperature were hidden.
TempShown_Defined(parsed) == Len(parsed.temperature) = 1

\* The temperature entry of a label: shown unless undefined or zero.
TempShown(parsed) ==
    Len(parsed.temperature) = 1 /\ parsed.temperature[1] # 0

TempEntry(parsed) == <<"T", ":">> \o NumToStr(parsed.temperature[1])

\* LabelName as the sentence of the spec reads: each option cuts the whole
\* remaining string at its first colon / first slash.
LabelName_WholeString(baseId, opts) ==
    LET a == IF opts.hideProvider /\ IndexOf(baseId, ":") > 0
             THEN Drop(baseId, IndexOf(baseId, ":")) ELSE baseId
    IN  IF opts.hideModelMaker /\ IndexOf(a, "/") > 0
        THEN Drop(a, IndexOf(a, "/")) ELSE a

\* The name part of a label.  The provider prefix ends at the first colon;
\* hideModelMaker cuts the maker off the rest and keeps the prefix
\* ('openrouter:google/gemini-pro' -> 'openrouter:gemini-pro'), hideProvider
\* drops the prefix.
LabelName(baseId, opts) ==
    LET c == IndexOf(baseId, ":")
        provider == SubSeq(baseId, 1, c)
        rest == Drop(baseId, c)
        model == IF opts.hideModelMaker /\ IndexOf(rest, "/") > 0
                 THEN Drop(rest, IndexOf(rest, "/")) ELSE rest
    IN  IF opts.hideProvider THEN model ELSE provider \o model

\* LabelOfParsed with the two entries of the parenthetical in the other order.
LabelOfParsed_TempFirst(parsed, opts) ==
    LET sysPart == IF Len(parsed.systemPromptHash) = 1
                   THEN <<SysTag(parsed.systemPromptHash[1])>> ELSE <<>>
        tempPart == IF TempShown(parsed) THEN <<TempEntry(parsed)>> ELSE <<>>
        parts == tempPart \o sysPart
        joined == IF Len(parts) = 2 THEN parts[1] \o <<",", " ">> \o parts[2]
                  ELSE parts[1]
    IN  IF parsed.baseId = IDEAL_MODEL_ID_BASE THEN IDEAL_MODEL_ID_BASE
        ELSE IF Len(parts) = 0 THEN LabelName(parsed.baseId, opts)
        ELSE LabelName(parsed.baseId, opts) \o <<" ", "(">> \o joined \o <<")">>

LabelOfParsed(parsed, opts) ==
    LET sysPart == IF Len(parsed.systemPromptHash) = 1
                   THEN <<SysTag(parsed.systemPromptHash[1])>> ELSE <<>>
        tempPart == IF TempShown(parsed) THEN <<TempEntry(parsed)>> ELSE <<>>
        parts == sysPart \o tempPart
        joined == IF Len(parts) = 2 THEN parts[1] \o <<",", " ">> \o parts[2]
                  ELSE parts[1]
    IN  IF parsed.baseId = IDEAL_MODEL_ID_BASE THEN IDEAL_MODEL_ID_BASE
        ELSE IF Len(parts) = 0 THEN LabelName(parsed.baseId, opts)
        ELSE LabelName(parsed.baseId, opts) \o <<" ", "(">> \o joined \o <<")">>

getModelDisplayLabel(id, opts) == LabelOfParsed(parseEffectiveModelId(id), opts)

(***************************************************************************)
(* Values of the pipeline                                                  *)
(***************************************************************************)
\* string | null | undefined, as the code's system prompts are
SysUndefined == "<undefined>"

SysNull == "<null>"

Truthy(sys) == sys \notin {SysUndefined, SysNull, ""}

NoErr == [kind |-> "none", id |-> <<>>, detail |-> ""]

\* `Response contains error markers.`
MarkersErr == [kind |-> "markers", id |-> <<>>, detail |-> ""]

\* `Failed to get response for ${finalEffectiveId}: ${error.message}`
FailedErr(id, detail) == [kind |-> "failed", id |-> id, detail |-> detail]

Plain(c) == [kind |-> "plain", content |-> c, err |-> NoErr]

\* `<error>${errorMessage}</error>`
ErrorWrapped(err) == [kind |-> "errorWrapped", content |-> "", err |-> err]

Message(role, text) == [role |-> role, content |-> text]

HasSystemMessage(msgs) == \E i \in 1..Len(msgs) : msgs[i].role = "system"

\* What the provider can answer: a normal text or an error-marker payload.
OkText == Plain("answer")

MarkerText == Plain("<error>upstream</error>")

ProviderTexts == {OkText, MarkerText}

ProviderErrors == {"timeout"}

checkForErrors(text) == text = MarkerText

DEFAULT_TEMPERATURE == 0

DEFAULT_CONCURRENCY == 10

(***************************************************************************)
(* generateAllResponses: what one task computes                            *)
(***************************************************************************)
\* a ?? b on optional values
Coalesce(a, b) == IF Len(a) = 1 THEN a ELSE b

TemperaturesToRun(cfg) ==
    IF Len(cfg.temperatures) > 0
    THEN [i \in 1..Len(cfg.temperatures) |-> <<cfg.temperatures[i]>>]
    ELSE <<cfg.temperature>>

SystemPromptsToRun(cfg) ==
    IF Len(cfg.systems) > 0 THEN cfg.systems ELSE <<cfg.system>>

TotalResponsesToGenerate(cfg) ==
    Len(cfg.prompts) * Len(cfg.models) * Len(TemperaturesToRun(cfg))
        * Len(SystemPromptsToRun(cfg))

\* A task: prompt p, model m, temperature t and system prompt s, each the
\* position in its list.
TaskPrompt(cfg, task) == cfg.prompts[task.p]

TaskModel(cfg, task) == cfg.models[task.m]

\* SystemPromptToUse as it would be if the override were tested for
\* truthiness, so that an explicit null or "" fell through to the global one.
SystemPromptToUse_OverrideIfTruthy(cfg, task) ==
    IF Len(cfg.systems) > 0 THEN SystemPromptsToRun(cfg)[task.s]
    ELSE IF Truthy(TaskPrompt(cfg, task).system)
         THEN TaskPrompt(cfg, task).system
         ELSE cfg.system

SystemPromptToUse(cfg, task) ==
    IF Len(cfg.systems) > 0 THEN SystemPromptsToRun(cfg)[task.s]
    ELSE IF TaskPrompt(cfg, task).system # SysUndefined
         THEN TaskPrompt(cfg, task).system
         ELSE cfg.system

TemperatureForThisCall(cfg, task) ==
    Coalesce(TemperaturesToRun(cfg)[task.t],
        Coalesce(TaskPrompt(cfg, task).temperature,
            Coalesce(cfg.temperature, <<DEFAULT_TEMPERATURE>>)))[1]

\* sp_idx is the forEach index, counted from 0
FinalEffectiveId(cfg, task) ==
    TaskModel(cfg, task)
        \o TempOpen \o ToFixed1(TemperatureForThisCall(cfg, task)) \o <<"]">>
        \o (IF Len(cfg.systems) > 1
            THEN SpIdxOpen \o IntStr(task.s - 1) \o <<"]">> ELSE <<>>)

\* MessagesForLlm as it would be without the search for a system message
\* among the prompt's own messages.
MessagesForLlm_AlwaysPrepend(cfg, task) ==
    LET own == TaskPrompt(cfg, task).messages[1]
        sys == SystemPromptToUse(cfg, task)
    IN  IF Truthy(sys)
        THEN <<Message("system", Plain(sys))>> \o own
        ELSE own

MessagesForLlm(cfg, task) ==
    LET own == TaskPrompt(cfg, task).messages[1]
        sys == SystemPromptToUse(cfg, task)
    IN  IF Truthy(sys) /\ ~HasSystemMessage(own)
        THEN <<Message("system", Plain(sys))>> \o own
        ELSE own

\* How a getModelResponse call ended: the text it resolved with or the
\* message of the error it rejected with
NoOutcome == [text |-> <<>>, detail |-> <<>>]

Returned(text) == [text |-> <<text>>, detail |-> <<>>]

Threw(detail) == [text |-> <<>>, detail |-> <<detail>>]

\* The arguments of getModelResponse for the task
CallOf(cfg, task) ==
    [modelId |-> TaskModel(cfg, task),
     messages |-> MessagesForLlm(cfg, task),
     temperature |-> TemperatureForThisCall(cfg, task),
     effectiveId |-> FinalEffectiveId(cfg, task),
     state |-> "pending",
     outcome |-> NoOutcome,
     n |-> 1]

\* The record of a task whose provider call returned `text`
RecordOfResponse(cfg, task, text) ==
    [finalAssistantResponseText |-> text,
     fullConversationHistory |->
         MessagesForLlm(cfg, task) \o <<Message("assistant", text)>>,
     hasError |-> checkForErrors(text),
     errorMessage |-> IF checkForErrors(text) THEN MarkersErr ELSE NoErr,
     systemPromptUsed |->
         IF SystemPromptToUse(cfg, task) = SysUndefined THEN SysNull
         ELSE SystemPromptToUse(cfg, task)]

\* RecordOfFailure as it would be if the catch block did not append the
\* assistant turn.
RecordOfFailure_NoTurn(cfg, task, detail) ==
    LET errorMessage == FailedErr(FinalEffectiveId(cfg, task), detail)
    IN  [finalAssistantResponseText |-> ErrorWrapped(errorMessage),
         fullConversationHistory |-> MessagesForLlm(cfg, task),
         hasError |-> TRUE,
         errorMessage |-> errorMessage,
         systemPromptUsed |->
             IF SystemPromptToUse(cfg, task) = SysUndefined THEN SysNull
             ELSE SystemPromptToUse(cfg, task)]

\* The record of a task whose provider call threw `detail`
RecordOfFailure(cfg, task, detail) ==
    LET errorMessage == FailedErr(FinalEffectiveId(cfg, task), detail)
    IN  [finalAssistantResponseText |-> ErrorWrapped(errorMessage),
         fullConversationHistory |->
             MessagesForLlm(cfg, task)
                 \o <<Message("assistant", ErrorWrapped(errorMessage))>>,
         hasError |-> TRUE,
         errorMessage |-> errorMessage,
         systemPromptUsed |->
             IF SystemPromptToUse(cfg, task) = SysUndefined THEN SysNull
             ELSE SystemPromptToUse(cfg, task)]

\* Map.prototype.set on an insertion-ordered map [keys, val]
MapSet(map, k, v) ==
    [keys |-> IF \E i \in 1..Len(map.keys) : map.keys[i] = k
              THEN map.keys ELSE Append(map.keys, k),
     val |-> [a \in DOMAIN map.val \cup {k} |-> IF a = k THEN v ELSE map.val[a]]]

EmptyMap == [keys |-> <<>>, val |-> <<>>]

RECURSIVE SeqSum(_)
SeqSum(s) == IF Len(s) = 0 THEN 0 ELSE Head(s) + SeqSum(Tail(s))

\* The tasks in the order the nested forEach loops push them; a prompt
\* without messages is skipped.
RECURSIVE FlattenSeq(_)
FlattenSeq(ss) == IF Len(ss) = 0 THEN <<>> ELSE Head(ss) \o FlattenSeq(Tail(ss))

TasksOfPrompt(cfg, p) ==
    IF Len(cfg.prompts[p].messages) = 0 THEN <<>>
    ELSE FlattenSeq([m \in 1..Len(cfg.models) |->
            FlattenSeq([t \in 1..Len(TemperaturesToRun(cfg)) |->
                [s \in 1..Len(SystemPromptsToRun(cfg)) |->
                    [p |-> p, m |-> m, t |-> t, s |-> s]]])])

EnqueuedTasks(cfg) ==
    FlattenSeq([p \in 1..Len(cfg.prompts) |-> TasksOfPrompt(cfg, p)])

\* currentPromptData as created for a prompt that has messages
NewPromptData(prompt) ==
    [promptId |-> prompt.id,
     promptText |-> prompt.promptText,
     initialMessages |-> prompt.messages[1],
     idealResponseText |-> IF Len(prompt.idealResponse) = 1 /\ prompt.idealResponse[1] # ""
                           THEN prompt.idealResponse ELSE <<>>,
     modelResponses |-> EmptyMap]

RECURSIVE InitialResponsesMap(_, _)
InitialResponsesMap(prompts, map) ==
    IF Len(prompts) = 0 THEN map
    ELSE InitialResponsesMap(Tail(prompts),
            IF Len(Head(prompts).messages) = 0 THEN map
            ELSE MapSet(map, Head(prompts).id, NewPromptData(Head(prompts))))

Limit(cfg) == IF cfg.concurrency # 0 THEN cfg.concurrency ELSE DEFAULT_CONCURRENCY

(***************************************************************************)
(* aggregateAndSaveResults: the document                                   *)
(***************************************************************************)
\* The characters of the model in UTF-16 code unit order
CodeOrder ==
    <<" ", "(", ")", ",", "-", ".", "/", "0", "1", "2", "3", "4", "5", "6",
      "7", "8", "9", ":", "A", "B", "C", "D", "E", "H", "I", "K", "L", "M",
      "N", "O", "R", "T", "[", "]", "_", "a", "b", "c", "d", "e", "g", "h",
      "i", "m", "o", "p", "q", "s", "t", "x", "y">>

CharCode(c) == CHOOSE i \in 1..Len(CodeOrder) : CodeOrder[i] = c

\* a sorts before b under Array.prototype.sort's default comparison
StrLess(a, b) ==
    \/ /\ Len(a) < Len(b)
       /\ SubSeq(b, 1, Len(a)) = a
    \/ \E i \in 1..Len(a) :
          /\ i <= Len(b)
          /\ SubSeq(a, 1, i - 1) = SubSeq(b, 1, i - 1)
          /\ CharCode(a[i]) < CharCode(b[i])

\* SortedOfSet with the comparison the wrong way round.
RECURSIVE SortedOfSet_Descending(_)
SortedOfSet_Descending(S) ==
    IF S = {} THEN <<>>
    ELSE LET greatest == CHOOSE a \in S : \A b \in S \ {a} : StrLess(b, a)
         IN  <<greatest>> \o SortedOfSet_Descending(S \ {greatest})

RECURSIVE SortedOfSet(_)
SortedOfSet(S) ==
    IF S = {} THEN <<>>
    ELSE LET least == CHOOSE a \in S : \A b \in S \ {a} : StrLess(a, b)
         IN  <<least>> \o SortedOfSet(S \ {least})

Range(s) == {s[i] : i \in 1..Len(s)}

\* HasAnyIdeal as it would be if it tested idealResponse for being defined
\* and not for being non-empty.
HasAnyIdeal_Defined(cfg) ==
    \E i \in 1..Len(cfg.prompts) : Len(cfg.prompts[i].idealResponse) = 1

HasAnyIdeal(cfg) ==
    \E i \in 1..Len(cfg.prompts) :
        /\ Len(cfg.prompts[i].idealResponse) = 1
        /\ cfg.prompts[i].idealResponse[1] # ""

EffectiveModelsSet(cfg, map) ==
    UNION {Range(map.val[pid].modelResponses.keys) : pid \in Range(map.keys)}
        \cup (IF HasAnyIdeal(cfg) THEN {IDEAL_MODEL_ID} ELSE {})

PromptContextOf(promptData) ==
    IF Len(promptData.initialMessages) > 0
    THEN [kind |-> "messages", messages |-> promptData.initialMessages, text |-> ""]
    ELSE IF promptData.promptText # ""
    THEN [kind |-> "text", messages |-> <<>>, text |-> promptData.promptText]
    ELSE [kind |-> "text", messages |-> <<>>, text |-> "Error: No input context found"]

FinalResponsesOf(promptData) ==
    LET ids == Range(promptData.modelResponses.keys)
        ideal == IF Len(promptData.idealResponseText) = 1 THEN {IDEAL_MODEL_ID} ELSE {}
    IN  [id \in ids \cup ideal |->
            IF id \in ids
            THEN promptData.modelResponses.val[id].finalAssistantResponseText
            ELSE Plain(promptData.idealResponseText[1])]

HistoriesOf(promptData) ==
    [id \in Range(promptData.modelResponses.keys) |->
        promptData.modelResponses.val[id].fullConversationHistory]

\* ErroredIds as it would be if only a thrown provider call counted.
ErroredIds_ThrownOnly(promptData) ==
    {id \in Range(promptData.modelResponses.keys) :
        /\ promptData.modelResponses.val[id].hasError
        /\ promptData.modelResponses.val[id].errorMessage.kind = "failed"}

ErroredIds(promptData) ==
    {id \in Range(promptData.modelResponses.keys) :
        /\ promptData.modelResponses.val[id].hasError
        /\ promptData.modelResponses.val[id].errorMessage.kind # "none"}

ErrorsOf(map) ==
    LET pids == {pid \in Range(map.keys) : ErroredIds(map.val[pid]) # {}}
    IN  [pid \in pids |->
            [id \in ErroredIds(map.val[pid]) |->
                map.val[pid].modelResponses.val[id].errorMessage]]

\* modelSystemPrompts[id]: the containers are visited in the map's order and
\* each record overwrites the entry, so the last container holding id decides.
ModelSystemPromptsOf(map) ==
    LET ids == UNION {Range(map.val[pid].modelResponses.keys) : pid \in Range(map.keys)}
        lastHolder(id) ==
            CHOOSE i \in 1..Len(map.keys) :
                /\ id \in Range(map.val[map.keys[i]].modelResponses.keys)
                /\ \A j \in (i + 1)..Len(map.keys) :
                      id \notin Range(map.val[map.keys[j]].modelResponses.keys)
    IN  [id \in ids |->
            map.val[map.keys[lastHolder(id)]].modelResponses.val[id].systemPromptUsed]

FileNameOf(runLabel, timestamp) ==
    [runLabel |-> runLabel, safeTimestamp |-> timestamp, suffix |-> "_comparison.json"]

\* An environment variable that is not set
EnvUnset == "<unset>"

\* process.env.STORE_FULL_HISTORY !== 'false'
StoreFullHistory(env) == env # "false"

\* fullConversationHistories as it would be if the toggle only kept the
\* per-record histories out and the table with its per-prompt entries stayed.
FullConversationHistoriesOf_EmptiedWhenOff(map, env) ==
    IF StoreFullHistory(env)
    THEN <<[pid \in Range(map.keys) |-> HistoriesOf(map.val[pid])]>>
    ELSE <<[pid \in Range(map.keys) |-> <<>>]>>

\* The document's fullConversationHistories: the table, or undefined
FullConversationHistoriesOf(map, env) ==
    IF StoreFullHistory(env)
    THEN <<[pid \in Range(map.keys) |-> HistoriesOf(map.val[pid])]>>
    ELSE <<>>

FinalOutput(cfg, runLabel, timestamp, map, results, methods, storeFullHistory) ==
    [configId |-> cfg.id[1],
     configTitle |-> cfg.title[1],
     runLabel |-> runLabel,
     timestamp |-> timestamp,
     config |-> cfg,
     evalMethodsUsed |-> methods,
     effectiveModels |-> SortedOfSet(EffectiveModelsSet(cfg, map)),
     modelSystemPrompts |-> ModelSystemPromptsOf(map),
     promptIds |-> SortedOfSet(Range(map.keys)),
     promptContexts |-> [pid \in Range(map.keys) |-> PromptContextOf(map.val[pid])],
     extractedKeyPoints |-> results["extractedKeyPoints"],
     allFinalAssistantResponses |->
         [pid \in Range(map.keys) |-> FinalResponsesOf(map.val[pid])],
     fullConversationHistories |-> FullConversationHistoriesOf(map, storeFullHistory),
     evaluationResults |->
         [t \in {"similarityMatrix", "perPromptSimilarities", "llmCoverageScores"} |->
             results[t]],
     errors |-> IF DOMAIN ErrorsOf(map) # {} THEN <<ErrorsOf(map)>> ELSE <<>>]

\* IdentityMissing as it would be if only an undefined id or title counted
\* (a test of === undefined instead of falsiness).
IdentityMissing_UndefinedOnly(cfg) ==
    \/ Len(cfg.id) = 0
    \/ Len(cfg.title) = 0

\* !resolvedConfigId || !resolvedConfigTitle: undefined and "" are falsy
IdentityMissing(cfg) ==
    \/ Len(cfg.id) = 0
    \/ cfg.id[1] = ""
    \/ Len(cfg.title) = 0
    \/ cfg.title[1] = ""

(***************************************************************************)
(* executeComparisonPipeline: evaluators                                   *)
(***************************************************************************)
\* The registry, in its fixed order
Evaluators == <<"embedding", "llm-coverage">>

Tables == {"llmCoverageScores", "similarityMatrix", "perPromptSimilarities",
           "extractedKeyPoints"}

\* A table is the set of its entries; {} is the empty table
InitialEvaluationResults == [t \in Tables |-> {}]

\* ChosenEvaluators as it would be if the requested methods were mapped to
\* their evaluators, in the order and as often as they are requested.
ChosenEvaluators_RequestOrder(methods) ==
    SelectSeq(methods, LAMBDA m : \E i \in 1..Len(Evaluators) : Evaluators[i] = m)

\* evaluators.filter(e => evalMethods.includes(e.getMethodName()))
ChosenEvaluators(methods) ==
    SelectSeq(Evaluators, LAMBDA e : \E i \in 1..Len(methods) : methods[i] = e)

\* MergeResults as it would be if a table returned again were merged entry
\* by entry into the one already held.
MergeResults_Deep(combined, results) ==
    [t \in Tables |-> IF t \in DOMAIN results THEN combined[t] \cup results[t]
                                                ELSE combined[t]]

\* { ...combinedEvaluationResults, ...results }
MergeResults(combined, results) ==
    [t \in Tables |-> IF t \in DOMAIN results THEN results[t] ELSE combined[t]]

\* What an evaluator may return: a partial bundle, each table holding one
\* entry marked with the evaluator that produced it.
EvaluatorOutputs(e) ==
    IF e = "embedding"
    THEN {[t \in {"similarityMatrix", "perPromptSimilarities"} |-> {e}]}
    ELSE {[t \in {"llmCoverageScores", "extractedKeyPoints"} |-> {e}],
          [t \in {"llmCoverageScores", "extractedKeyPoints", "similarityMatrix"} |-> {e}]}

\* Step 2: one Evaluation Input per container, in the map's order
EvaluationInputsOf(cfg, map) ==
    [i \in 1..Len(map.keys) |->
        [promptId |-> map.keys[i],
         promptData |-> map.val[map.keys[i]],
         effectiveModelIds |-> map.val[map.keys[i]].modelResponses.keys]]

(***************************************************************************)
(* State                                                                   *)
(***************************************************************************)
VARIABLES
    config,                     \* the resolved Configuration
    evalMethods,                \* the requested method list
    storeFullHistory,           \* process.env.STORE_FULL_HISTORY
    pc,                         \* where executeComparisonPipeline stands
    queue,                      \* tasks p-limit has not started yet
    calls,                      \* started task -> its getModelResponse call
    allResponsesMap,            \* prompt id -> Prompt Response Container
    generatedCount,
    evaluationInputs,
    evalDone,                   \* chosen evaluators that have returned
    evalRunning,                \* an evaluate() is awaited
    combinedEvaluationResults,
    evalLog,                    \* the evaluate() calls and how each ended
    saveCalls,                  \* the calls of saveResultToStorage
    result,                     \* what the pipeline returned or raised
    codec,                      \* one use of the codec
    cli                         \* the runs of the run_config action

vars == <<config, evalMethods, storeFullHistory, pc, queue, calls,
          allResponsesMap, generatedCount, evaluationInputs, evalDone,
          evalRunning, combinedEvaluationResults, evalLog, saveCalls, result,
          codec, cli>>

pipelineVars == <<config, evalMethods, storeFullHistory, pc, queue, calls,
                  allResponsesMap, generatedCount, evaluationInputs, evalDone,
                  evalRunning, combinedEvaluationResults, evalLog, saveCalls,
                  result>>

(***************************************************************************)
(* Configurations                                                          *)
(***************************************************************************)
MaxPrompts == 2

MaxModels == 3

MaxTasks == 3

UserMessages == <<Message("user", Plain("q"))>>

OwnSystemMessages == <<Message("system", Plain("own")), Message("user", Plain("q"))>>

PlainPrompt ==
    [messages |-> <<UserMessages>>, promptText |-> "", idealResponse |-> <<>>,
     system |-> SysUndefined, temperature |-> <<>>]

ModelList == <<<<"a">>, <<"b">>, <<"c">>, <<"d">>>>

PromptId(i) == <<"p", DigitChar(i)>>

RunLabel == "run"

Timestamps == {"ts"}

\* temperature lists: absent, one value, two values that differ in the first
\* decimal, two values that agree in it
TemperatureLists == {<<>>, <<0>>, <<30, 50>>, <<71, 72>>}

SystemLists == {<<>>, <<"A", "B">>}

Concurrencies == {0, 1, 2}

ConfigOf(prompts, nModels, temperatures, temperature, systems, system, concurrency, id, title) ==
    [prompts |-> [i \in 1..Len(prompts) |->
                    [id |-> PromptId(i),
                     messages |-> prompts[i].messages,
                     promptText |-> prompts[i].promptText,
                     idealResponse |-> prompts[i].idealResponse,
                     system |-> prompts[i].system,
                     temperature |-> prompts[i].temperature]],
     models |-> SubSeq(ModelList, 1, nModels),
     temperatures |-> temperatures,
     temperature |-> temperature,
     systems |-> systems,
     system |-> system,
     concurrency |-> concurrency,
     id |-> id,
     title |-> title]

SeqsUpTo(S, n) == UNION {[1..k -> S] : k \in 1..n}

\* Configurations that vary the shape of the task set
Configs ==
    {c \in {ConfigOf(ps, m, ts, <<>>, ss, SysUndefined, k, <<"cfg">>, <<"Title">>) :
               ps \in SeqsUpTo({PlainPrompt}, MaxPrompts), m \in 1..MaxModels,
               ts \in TemperatureLists, ss \in SystemLists, k \in Concurrencies} :
        Len(EnqueuedTasks(c)) <= MaxTasks}

\* Prompt specs that differ in what aggregation reads: the ideal response
\* (absent, empty, given) and the messages (given, or absent so that
\* generateAllResponses skips the prompt).
IdealPrompt == [PlainPrompt EXCEPT !.idealResponse = <<"ideal text">>]

EmptyIdealPrompt == [PlainPrompt EXCEPT !.idealResponse = <<"">>]

NoMessagesPrompt == [PlainPrompt EXCEPT !.messages = <<>>, !.promptText = "q"]

NoMessagesIdealPrompt == [NoMessagesPrompt EXCEPT !.idealResponse = <<"ideal text">>]

PromptShapes ==
    {PlainPrompt, IdealPrompt, EmptyIdealPrompt, NoMessagesPrompt, NoMessagesIdealPrompt}

\* Configurations that vary the prompts
\* The prompts of cfg listed in the opposite order, each with its id
ReversePrompts(cfg) ==
    [cfg EXCEPT !.prompts =
        [i \in 1..Len(cfg.prompts) |-> cfg.prompts[Len(cfg.prompts) + 1 - i]]]

PromptConfigs ==
    LET listed ==
            {c \in {ConfigOf(ps, 1, <<>>, <<>>, <<>>, SysUndefined, k, <<"cfg">>,
                             <<"Title">>) :
                       ps \in SeqsUpTo(PromptShapes, MaxPrompts), k \in {0, 1}} :
                Len(EnqueuedTasks(c)) <= MaxTasks}
    IN  listed \cup {ReversePrompts(c) : c \in listed}

\* Configurations that vary the identity fields: undefined, empty, given
IdentityFields(given) == {<<>>, <<"">>, given}

IdentityConfigs ==
    {ConfigOf(<<PlainPrompt>>, m, <<>>, <<>>, <<>>, SysUndefined, k, id, title) :
        m \in {1, 2}, k \in {0, 1},
        id \in IdentityFields(<<"cfg">>), title \in IdentityFields(<<"Title">>)}

\* Configurations that vary what one task resolves: the prompt's own system
\* override (none, null, empty, given), its temperature override, a system
\* message of its own, and the global and listed systems and temperatures
PromptSystems == {SysUndefined, SysNull, "", "P"}

TaskPrompts ==
    {[PlainPrompt EXCEPT !.system = sys, !.temperature = temp, !.messages = <<msgs>>] :
        sys \in PromptSystems, temp \in {<<>>, <<30>>},
        msgs \in {UserMessages, OwnSystemMessages}}

TaskConfigs ==
    {ConfigOf(<<p>>, 1, ts, t, ss, sys, 1, <<"cfg">>, <<"Title">>) :
        p \in TaskPrompts, ts \in {<<>>, <<30, 50>>, <<71, 72>>}, t \in {<<>>, <<50>>},
        ss \in {<<>>, <<"A">>, <<"A", "B">>}, sys \in {SysUndefined, "G"}}

\* Configurations of two prompts that vary each prompt's system override
\* beside the global and the listed system prompts
OverrideConfigs ==
    {ConfigOf(<<[PlainPrompt EXCEPT !.system = s1], [PlainPrompt EXCEPT !.system = s2]>>,
              1, <<>>, <<>>, ss, sys, k, <<"cfg">>, <<"Title">>) :
        s1 \in {SysUndefined, "P"}, s2 \in {SysUndefined, "P", "Q"},
        ss \in {<<>>, <<"A">>}, sys \in {SysUndefined, "G"}, k \in {1, 2}}

\* Requested method sets: none, one, both in either order, one named twice
RequestedMethods ==
    {<<>>, <<"embedding">>, <<"llm-coverage">>, <<"embedding", "llm-coverage">>,
     <<"llm-coverage", "embedding">>, <<"llm-coverage", "embedding", "llm-coverage">>,
     <<"embedding", "embedding">>}

MethodConfigs ==
    {ConfigOf(<<PlainPrompt>>, m, <<>>, <<>>, <<>>, SysUndefined, 0, <<"cfg">>, <<"Title">>) :
        m \in {1, 2}}

MethodLists == {<<"embedding">>, <<"llm-coverage", "embedding">>}

NoResult == [kind |-> "none", data |-> <<>>, fileName |-> <<>>, error |-> ""]

CodecIdle == [pc |-> "idle"]

CliIdle == <<>>

(***************************************************************************)
(* Initial state: executeComparisonPipeline has been called and            *)
(* generateAllResponses has pushed every task to the limiter.              *)
(***************************************************************************)
InitPipeline(cfgs, methodLists, histories) ==
    /\ config \in cfgs
    /\ evalMethods \in methodLists
    /\ storeFullHistory \in histories
    /\ pc = "generating"
    /\ queue = EnqueuedTasks(config)
    /\ calls = <<>>
    /\ allResponsesMap = InitialResponsesMap(config.prompts, EmptyMap)
    /\ generatedCount = 0
    /\ evaluationInputs = <<>>
    /\ evalDone = 0
    /\ evalRunning = FALSE
    /\ combinedEvaluationResults = InitialEvaluationResults
    /\ evalLog = <<>>
    /\ saveCalls = <<>>
    /\ result = NoResult
    /\ codec = CodecIdle
    /\ cli = CliIdle

Init == InitPipeline(Configs, MethodLists, {EnvUnset})

InitPrompts == InitPipeline(PromptConfigs, MethodLists, {EnvUnset})

InitIdentity == InitPipeline(IdentityConfigs, MethodLists, {EnvUnset})

InitTasks == InitPipeline(TaskConfigs, {<<"embedding">>}, {EnvUnset})

InitOverrides == InitPipeline(OverrideConfigs, {<<"embedding">>}, {EnvUnset})

InitMethods == InitPipeline(MethodConfigs, RequestedMethods, {EnvUnset})

\* STORE_FULL_HISTORY not set, 'false', and two other strings
EnvValues == {EnvUnset, "false", "true", "FALSE"}

InitHistories == InitPipeline(MethodConfigs, MethodLists, EnvValues)

\* One prompt, one to three models, a limit of 1 or 2
QueueingConfigs ==
    {ConfigOf(<<PlainPrompt>>, m, <<>>, <<>>, <<>>, SysUndefined, k, <<"cfg">>, <<"Title">>) :
        m \in {1, 2, 3}, k \in {1, 2}}

InitQueueing == InitPipeline(QueueingConfigs, {<<"embedding">>}, {EnvUnset})

(***************************************************************************)
(* Generation                                                              *)
(***************************************************************************)
Pending == {task \in DOMAIN calls : calls[task].state = "pending"}

\* InFlight as it would be if a task whose provider call threw kept its
\* slot of the limiter.
InFlight_FailedKeepsSlot ==
    Cardinality({task \in DOMAIN calls : calls[task].state \in {"pending", "threw"}})

\* The tasks that hold a slot of the limiter
InFlight == Cardinality(Pending)

\* CanStart as it would be if the tasks were not wrapped in the limiter.
CanStart_Unlimited == Len(queue) > 0

\* CanStart as it would be if the limiter ran its tasks one after the other
\* whatever the limit.
CanStart_OneAtATime == Len(queue) > 0 /\ InFlight < 1

\* p-limit may start the next queued task while fewer than `limit` run
CanStart == Len(queue) > 0 /\ InFlight < Limit(config)

\* currentPromptData.modelResponses.set(finalEffectiveId, record)
StoreRecord(map, task, record) ==
    LET pid == config.prompts[task.p].id
    IN  [map EXCEPT !.val[pid].modelResponses =
            MapSet(@, FinalEffectiveId(config, task), record)]

\* StartTask as it would be if messagesForLlm were the prompt's own array
\* and not a copy of it, so that unshift wrote into the Configuration and
\* into the container that shares the array.
StartTask_UnshiftsInPlace ==
    /\ CanStart
    /\ calls' = (Head(queue) :> CallOf(config, Head(queue))) @@ calls
    /\ queue' = Tail(queue)
    /\ config' = [config EXCEPT !.prompts[Head(queue).p].messages =
                                   <<MessagesForLlm(config, Head(queue))>>]
    /\ allResponsesMap' =
           [allResponsesMap EXCEPT !.val[config.prompts[Head(queue).p].id].initialMessages =
                                       MessagesForLlm(config, Head(queue))]
    /\ UNCHANGED <<evalMethods, storeFullHistory, pc,
                   generatedCount, evaluationInputs, evalDone, evalRunning,
                   combinedEvaluationResults, evalLog, saveCalls, result, codec, cli>>

\* The limiter starts the task at the head of its queue; the task runs up
\* to its await of getModelResponse.
StartTask ==
    /\ CanStart
    /\ calls' = (Head(queue) :> CallOf(config, Head(queue))) @@ calls
    /\ queue' = Tail(queue)
    /\ UNCHANGED <<config, evalMethods, storeFullHistory, pc, allResponsesMap,
                   generatedCount, evaluationInputs, evalDone, evalRunning,
                   combinedEvaluationResults, evalLog, saveCalls, result, codec, cli>>

\* getModelResponse resolves; the task stores its record and ends.
ProviderReturns ==
    /\ \E task \in Pending, text \in ProviderTexts :
          /\ calls' = [calls EXCEPT ![task].state = "returned",
                                    ![task].outcome = Returned(text)]
          /\ allResponsesMap' =
                 StoreRecord(allResponsesMap, task, RecordOfResponse(config, task, text))
    /\ generatedCount' = generatedCount + 1
    /\ UNCHANGED <<config, evalMethods, storeFullHistory, pc, queue,
                   evaluationInputs, evalDone, evalRunning,
                   combinedEvaluationResults, evalLog, saveCalls, result, codec, cli>>

\* ProviderThrows as it would be if the catch block called getModelResponse
\* once more before giving up.
ProviderThrows_Retries ==
    /\ \E task \in Pending, detail \in ProviderErrors :
          IF calls[task].n < 2
          THEN /\ calls' = [calls EXCEPT ![task].n = 2]
               /\ UNCHANGED <<allResponsesMap, generatedCount>>
          ELSE /\ calls' = [calls EXCEPT ![task].state = "threw",
                                         ![task].outcome = Threw(detail)]
               /\ allResponsesMap' =
                      StoreRecord(allResponsesMap, task, RecordOfFailure(config, task, detail))
               /\ generatedCount' = generatedCount + 1
    /\ UNCHANGED <<config, evalMethods, storeFullHistory, pc, queue,
                   evaluationInputs, evalDone, evalRunning,
                   combinedEvaluationResults, evalLog, saveCalls, result, codec, cli>>

\* getModelResponse rejects; the catch block builds the record, the task
\* stores it and ends.
ProviderThrows ==
    /\ \E task \in Pending, detail \in ProviderErrors :
          /\ calls' = [calls EXCEPT ![task].state = "threw",
                                    ![task].outcome = Threw(detail)]
          /\ allResponsesMap' =
                 StoreRecord(allResponsesMap, task, RecordOfFailure(config, task, detail))
    /\ generatedCount' = generatedCount + 1
    /\ UNCHANGED <<config, evalMethods, storeFullHistory, pc, queue,
                   evaluationInputs, evalDone, evalRunning,
                   combinedEvaluationResults, evalLog, saveCalls, result, codec, cli>>

\* AllSettled as it would be if the barrier waited for the limiter's queue
\* to drain and not for the calls in flight.
AllSettled_QueueOnly == Len(queue) = 0

AllSettled == Len(queue) = 0 /\ Pending = {}

\* Promise.all(tasks) resolves; generateAllResponses returns and the
\* pipeline builds the Evaluation Inputs.
GenerationDone ==
    /\ pc = "generating"
    /\ AllSettled
    /\ pc' = "evaluating"
    /\ evaluationInputs' = EvaluationInputsOf(config, allResponsesMap)
    /\ UNCHANGED <<config, evalMethods, storeFullHistory, queue, calls,
                   allResponsesMap, generatedCount, evalDone, evalRunning,
                   combinedEvaluationResults, evalLog, saveCalls, result, codec, cli>>

(***************************************************************************)
(* Evaluation                                                              *)
(***************************************************************************)
Chosen == ChosenEvaluators(evalMethods)

\* The loop calls the next chosen evaluator's evaluate() and awaits it.
EvaluatorStart ==
    /\ pc = "evaluating"
    /\ ~evalRunning
    /\ evalDone < Len(Chosen)
    /\ evalRunning' = TRUE
    /\ evalLog' = Append(evalLog, [evaluator |-> Chosen[evalDone + 1], ended |-> "pending",
                                  results |-> <<>>])
    /\ UNCHANGED <<config, evalMethods, storeFullHistory, pc, queue, calls,
                   allResponsesMap, generatedCount, evaluationInputs, evalDone,
                   combinedEvaluationResults, saveCalls, result, codec, cli>>

\* evaluate() resolves; its partial bundle is spread over the running one.
EvaluatorReturns ==
    /\ pc = "evaluating"
    /\ evalRunning
    /\ \E results \in EvaluatorOutputs(Chosen[evalDone + 1]) :
          /\ combinedEvaluationResults' = MergeResults(combinedEvaluationResults, results)
          /\ evalLog' = [evalLog EXCEPT ![Len(evalLog)].ended = "returned",
                                        ![Len(evalLog)].results = <<results>>]
    /\ evalDone' = evalDone + 1
    /\ evalRunning' = FALSE
    /\ UNCHANGED <<config, evalMethods, storeFullHistory, pc, queue, calls,
                   allResponsesMap, generatedCount, evaluationInputs, saveCalls,
                   result, codec, cli>>

\* EvaluatorThrows as it would be if the loop caught the error and went on
\* to the next evaluator.
EvaluatorThrows_Swallowed ==
    /\ pc = "evaluating"
    /\ evalRunning
    /\ evalDone' = evalDone + 1
    /\ evalRunning' = FALSE
    /\ evalLog' = [evalLog EXCEPT ![Len(evalLog)].ended = "threw"]
    /\ UNCHANGED <<config, evalMethods, storeFullHistory, pc, queue, calls,
                   allResponsesMap, generatedCount, evaluationInputs,
                   combinedEvaluationResults, saveCalls, result, codec, cli>>

\* evaluate() rejects; nothing catches it and the pipeline rejects.
EvaluatorThrows ==
    /\ pc = "evaluating"
    /\ evalRunning
    /\ pc' = "raised"
    /\ evalRunning' = FALSE
    /\ result' = [NoResult EXCEPT !.kind = "raised", !.error = Chosen[evalDone + 1]]
    /\ evalLog' = [evalLog EXCEPT ![Len(evalLog)].ended = "threw"]
    /\ UNCHANGED <<config, evalMethods, storeFullHistory, queue, calls,
                   allResponsesMap, generatedCount, evaluationInputs, evalDone,
                   combinedEvaluationResults, saveCalls, codec, cli>>

(***************************************************************************)
(* Aggregation and persistence                                             *)
(***************************************************************************)
\* Aggregate as it would be if promptIds were the map's own key list, so
\* that promptIds.sort() reordered the containers.
Aggregate_SortsContainers ==
    /\ pc = "evaluating"
    /\ ~evalRunning
    /\ evalDone = Len(Chosen)
    /\ IF IdentityMissing(config)
       THEN /\ pc' = "raised"
            /\ result' = [NoResult EXCEPT !.kind = "raised", !.error = "identity"]
            /\ UNCHANGED saveCalls
       ELSE /\ pc' = "saving"
            /\ \E timestamp \in Timestamps :
                  saveCalls' = Append(saveCalls,
                      [ended |-> "pending",
                       configId |-> config.id[1],
                       fileName |-> FileNameOf(RunLabel, timestamp),
                       document |-> FinalOutput(config, RunLabel, timestamp,
                                        allResponsesMap, combinedEvaluationResults,
                                        evalMethods, storeFullHistory)])
            /\ UNCHANGED result
    /\ allResponsesMap' = [allResponsesMap EXCEPT !.keys = SortedOfSet(Range(@))]
    /\ UNCHANGED <<config, evalMethods, storeFullHistory, queue, calls,
                   generatedCount, evaluationInputs, evalDone,
                   evalRunning, combinedEvaluationResults, evalLog, codec, cli>>

\* aggregateAndSaveResults up to its await of saveResultToStorage: it throws
\* on a missing id or title, otherwise builds the document and calls save.
Aggregate ==
    /\ pc = "evaluating"
    /\ ~evalRunning
    /\ evalDone = Len(Chosen)
    /\ IF IdentityMissing(config)
       THEN /\ pc' = "raised"
            /\ result' = [NoResult EXCEPT !.kind = "raised", !.error = "identity"]
            /\ UNCHANGED saveCalls
       ELSE /\ pc' = "saving"
            /\ \E timestamp \in Timestamps :
                  saveCalls' = Append(saveCalls,
                      [ended |-> "pending",
                       configId |-> config.id[1],
                       fileName |-> FileNameOf(RunLabel, timestamp),
                       document |-> FinalOutput(config, RunLabel, timestamp,
                                        allResponsesMap, combinedEvaluationResults,
                                        evalMethods, storeFullHistory)])
            /\ UNCHANGED result
    /\ UNCHANGED <<config, evalMethods, storeFullHistory, queue, calls,
                   allResponsesMap, generatedCount, evaluationInputs, evalDone,
                   evalRunning, combinedEvaluationResults, evalLog, codec, cli>>

LastSave == saveCalls[Len(saveCalls)]

\* save resolves: { data: finalOutput, fileName: fileName }
SaveReturns ==
    /\ pc = "saving"
    /\ pc' = "returned"
    /\ result' = [NoResult EXCEPT !.kind = "returned",
                                  !.data = <<LastSave.document>>,
                                  !.fileName = <<LastSave.fileName>>]
    /\ saveCalls' = [saveCalls EXCEPT ![Len(saveCalls)].ended = "returned"]
    /\ UNCHANGED <<config, evalMethods, storeFullHistory, queue, calls,
                   allResponsesMap, generatedCount, evaluationInputs, evalDone,
                   evalRunning, combinedEvaluationResults, evalLog, codec, cli>>

\* SaveThrows as it would be without the try/catch around save.
SaveThrows_Rethrows ==
    /\ pc = "saving"
    /\ pc' = "raised"
    /\ result' = [NoResult EXCEPT !.kind = "raised", !.error = "save"]
    /\ saveCalls' = [saveCalls EXCEPT ![Len(saveCalls)].ended = "threw"]
    /\ UNCHANGED <<config, evalMethods, storeFullHistory, queue, calls,
                   allResponsesMap, generatedCount, evaluationInputs, evalDone,
                   evalRunning, combinedEvaluationResults, evalLog, codec, cli>>

\* SaveThrows as it would be if the catch block called save once more.
SaveThrows_Retries ==
    /\ pc = "saving"
    /\ Len(saveCalls) < 2
    /\ pc' = "saving"
    /\ saveCalls' = Append([saveCalls EXCEPT ![Len(saveCalls)].ended = "threw"],
                           [LastSave EXCEPT !.ended = "pending"])
    /\ UNCHANGED <<config, evalMethods, storeFullHistory, queue, calls,
                   allResponsesMap, generatedCount, evaluationInputs, evalDone,
                   evalRunning, combinedEvaluationResults, evalLog, result, codec, cli>>

\* save rejects: the catch block returns { data: finalOutput, fileName: null }
SaveThrows ==
    /\ pc = "saving"
    /\ pc' = "returned"
    /\ result' = [NoResult EXCEPT !.kind = "returned",
                                  !.data = <<LastSave.document>>]
    /\ saveCalls' = [saveCalls EXCEPT ![Len(saveCalls)].ended = "threw"]
    /\ UNCHANGED <<config, evalMethods, storeFullHistory, queue, calls,
                   allResponsesMap, generatedCount, evaluationInputs, evalDone,
                   evalRunning, combinedEvaluationResults, evalLog, codec, cli>>

Next ==
    \/ StartTask
    \/ ProviderReturns
    \/ ProviderThrows
    \/ GenerationDone
    \/ EvaluatorStart
    \/ EvaluatorReturns
    \/ EvaluatorThrows
    \/ Aggregate
    \/ SaveReturns
    \/ SaveThrows

Spec == Init /\ [][Next]_vars

SpecPrompts == InitPrompts /\ [][Next]_vars

SpecOverrides == InitOverrides /\ [][Next]_vars

SpecIdentity == InitIdentity /\ [][Next]_vars

SpecTasks == InitTasks /\ [][Next]_vars

SpecMethods == InitMethods /\ [][Next]_vars

SpecHistories == InitHistories /\ [][Next]_vars

\* Every provider call eventually returns or throws; the limiter starts a
\* queued task when a slot is free; the await of Promise.all resumes when
\* every task has settled.
SpecQueueingFair ==
    /\ InitQueueing
    /\ [][Next]_vars
    /\ WF_vars(StartTask)
    /\ WF_vars(ProviderReturns \/ ProviderThrows)
    /\ WF_vars(GenerationDone)

(***************************************************************************)
(* One use of the codec: an id is put together from a base, an optional    *)
(* [sys:] tag and an optional [temp:] tag in either order, then parsed,    *)
(* then labelled from the id string or from the parsed object.             *)
(***************************************************************************)
Bases ==
    {<<"m">>,
     <<"o", ":", "t", "-", "m">>,
     <<"o", ":", "g", "/", "m">>,
     <<"c", ":", "g", ":", "x">>,
     <<"g", "/", "m">>}

\* The reserved ids; the pipeline stores the ideal response under the bare id
\* and never tags it
ReservedIds == {IDEAL_MODEL_ID_BASE, IDEAL_BENCHMARK}

Hashes == {<<"1", "a", "2">>, <<"x", "y", "9">>}

\* A temperature as written in a tag, the number it denotes (hundredths) and
\* that number as a label shows it
TemperatureTexts ==
    {[text |-> <<"0">>, value |-> 0, shown |-> <<"0">>],
     [text |-> <<"0", ".", "0">>, value |-> 0, shown |-> <<"0">>],
     [text |-> <<"0", ".", "5">>, value |-> 50, shown |-> <<"0", ".", "5">>],
     [text |-> <<"0", ".", "9">>, value |-> 90, shown |-> <<"0", ".", "9">>],
     [text |-> <<"1">>, value |-> 100, shown |-> <<"1">>]}

LabelOptions == [hideProvider : BOOLEAN, hideModelMaker : BOOLEAN]

Optional(S) == {<<>>} \cup {<<v>> : v \in S}

SysTagOf(c) == IF Len(c.hash) = 1 THEN SysTag(c.hash[1]) ELSE <<>>

TempTagOf(c) == IF Len(c.temp) = 1 THEN TempTag(c.temp[1].text) ELSE <<>>

\* The id string of a codec input, and the same tags in the other order
IdOf(c) ==
    IF c.order = "sysFirst" THEN c.base \o SysTagOf(c) \o TempTagOf(c)
    ELSE c.base \o TempTagOf(c) \o SysTagOf(c)

SwappedIdOf(c) ==
    IF c.order = "sysFirst" THEN c.base \o TempTagOf(c) \o SysTagOf(c)
    ELSE c.base \o SysTagOf(c) \o TempTagOf(c)

PipelineIdle ==
    /\ config = ConfigOf(<<PlainPrompt>>, 1, <<>>, <<>>, <<>>, SysUndefined, 0,
                         <<"cfg">>, <<"Title">>)
    /\ evalMethods = <<>>
    /\ storeFullHistory = EnvUnset
    /\ pc = "idle"
    /\ queue = <<>>
    /\ calls = <<>>
    /\ allResponsesMap = EmptyMap
    /\ generatedCount = 0
    /\ evaluationInputs = <<>>
    /\ evalDone = 0
    /\ evalRunning = FALSE
    /\ combinedEvaluationResults = InitialEvaluationResults
    /\ evalLog = <<>>
    /\ saveCalls = <<>>
    /\ result = NoResult

InitCodec ==
    /\ PipelineIdle
    /\ cli = CliIdle
    /\ \E base \in Bases \cup ReservedIds, hash \in Optional(Hashes),
          temp \in Optional(TemperatureTexts),
          order \in {"sysFirst", "tempFirst"}, opts \in LabelOptions :
          /\ base \in ReservedIds => (hash = <<>> /\ temp = <<>>)
          /\ codec = [pc |-> "input", base |-> base, hash |-> hash, temp |-> temp,
                      order |-> order, opts |-> opts, parsed |-> NoTags(<<>>),
                      label |-> <<>>]

\* parseEffectiveModelId(id)
CodecParse ==
    /\ codec.pc = "input"
    /\ codec' = [codec EXCEPT !.pc = "parsed",
                              !.parsed = parseEffectiveModelId(IdOf(codec))]
    /\ UNCHANGED <<pipelineVars, cli>>

\* getModelDisplayLabel(id, options)
CodecLabelId ==
    /\ codec.pc = "input"
    /\ codec' = [codec EXCEPT !.pc = "labelled",
                              !.parsed = parseEffectiveModelId(IdOf(codec)),
                              !.label = getModelDisplayLabel(IdOf(codec), codec.opts)]
    /\ UNCHANGED <<pipelineVars, cli>>

\* getModelDisplayLabel(parsed, options)
CodecLabelParsed ==
    /\ codec.pc = "parsed"
    /\ codec' = [codec EXCEPT !.pc = "labelledParsed",
                              !.label = LabelOfParsed(codec.parsed, codec.opts)]
    /\ UNCHANGED <<pipelineVars, cli>>

NextCodec == CodecParse \/ CodecLabelId \/ CodecLabelParsed

SpecCodec == InitCodec /\ [][NextCodec]_vars

(***************************************************************************)
(* The run_config action: loadAndValidateConfig, the run label, the call   *)
(* of executeComparisonPipeline.  A JSON string is a sequence of           *)
(* characters; Absent and NotAString stand for a missing field and for a   *)
(* truthy value of another type.                                           *)
(***************************************************************************)
Absent == <<"<undefined>">>

NotAString == <<"<number>">>

IsString(v) == v \notin {Absent, NotAString}

Falsy(v) == v = Absent \/ v = <<>>

RECURSIVE TrimStart(_)
TrimStart(s) == IF Len(s) > 0 /\ s[1] = " " THEN TrimStart(Tail(s)) ELSE s

RECURSIVE TrimEnd(_)
TrimEnd(s) ==
    IF Len(s) > 0 /\ Last(s) = " " THEN TrimEnd(SubSeq(s, 1, Len(s) - 1)) ELSE s

\* String.prototype.trim
Trim(s) == TrimEnd(TrimStart(s))

LowerCase ==
    <<"a", "b", "c", "d", "e", "f", "g", "h", "i", "j", "k", "l", "m", "n", "o", "p",
      "q", "r", "s", "t", "u", "v", "w", "x", "y", "z">>

UpperCase ==
    <<"A", "B", "C", "D", "E", "F", "G", "H", "I", "J", "K", "L", "M", "N", "O", "P",
      "Q", "R", "S", "T", "U", "V", "W", "X", "Y", "Z">>

\* String.prototype.toUpperCase
ToUpperCase(s) ==
    [i \in 1..Len(s) |->
        IF \E k \in 1..Len(LowerCase) : LowerCase[k] = s[i]
        THEN UpperCase[CHOOSE k \in 1..Len(LowerCase) : LowerCase[k] = s[i]]
        ELSE s[i]]

\* "Placeholder: no colon, all caps"
IsPlaceholder(entry) ==
    IsString(entry) /\ IndexOf(entry, ":") = 0 /\ ToUpperCase(entry) = entry

\* Dedup that drops only a repetition of the element just before it.
RECURSIVE Dedup_Adjacent(_)
Dedup_Adjacent(list) ==
    IF Len(list) < 2 THEN list
    ELSE LET init == Dedup_Adjacent(SubSeq(list, 1, Len(list) - 1))
         IN  IF Last(list) = Last(init) THEN init ELSE Append(init, Last(list))

\* [...new Set(list)]: the first occurrence of each element, in order
RECURSIVE Dedup(_)
Dedup(list) ==
    IF Len(list) = 0 THEN <<>>
    ELSE LET init == Dedup(SubSeq(list, 1, Len(list) - 1))
         IN  IF Last(list) \in Range(init) THEN init ELSE Append(init, Last(list))

Loaded(cfg) == [ok |-> TRUE, error |-> "", config |-> <<cfg>>]

Thrown(message) == [ok |-> FALSE, error |-> message, config |-> <<>>]

Resolved(models) == [ok |-> TRUE, error |-> "", models |-> models]

Unresolved(message) == [ok |-> FALSE, error |-> message, models |-> <<>>]

\* The loop over originalModels: a placeholder is pushed as it is when no
\* collections path was given and replaced by its collection otherwise, a
\* string is pushed, anything else is skipped.
RECURSIVE ResolveModels(_, _, _, _)
ResolveModels(entries, resolvedModels, collectionsRepoPath, collections) ==
    IF Len(entries) = 0 THEN Resolved(resolvedModels)
    ELSE LET modelEntry == Head(entries)
             file == collections[modelEntry]
         IN  IF IsPlaceholder(modelEntry)
             THEN IF collectionsRepoPath = Absent
                  THEN ResolveModels(Tail(entries), Append(resolvedModels, modelEntry),
                                     collectionsRepoPath, collections)
                  ELSE IF modelEntry \notin DOMAIN collections
                  THEN Unresolved("Model collection file not found")
                  ELSE IF file.kind = "unreadable"
                  THEN Unresolved("Error reading or parsing local model collection")
                  ELSE IF \A i \in 1..Len(file.items) : IsString(file.items[i])
                  THEN ResolveModels(Tail(entries), resolvedModels \o file.items,
                                     collectionsRepoPath, collections)
                  ELSE Unresolved("Error reading or parsing local model collection")
             ELSE IF IsString(modelEntry)
             THEN ResolveModels(Tail(entries), Append(resolvedModels, modelEntry),
                                collectionsRepoPath, collections)
             ELSE ResolveModels(Tail(entries), resolvedModels,
                                collectionsRepoPath, collections)

\* models after "Defaulting to [CORE]"
DefaultedModels(models) ==
    IF models.kind # "array" \/ Len(models.items) = 0
    THEN [kind |-> "array", items |-> <<<<"C", "O", "R", "E">>>>]
    ELSE models

\* loadAndValidateConfig(configPath, collectionsRepoPath) for the blueprint
\* file `file` and the collection files `collections`
loadAndValidateConfig(file, collectionsRepoPath, collections) ==
    LET configJson == file.json[1]
        models == DefaultedModels(configJson.models)
        resolution == ResolveModels(models.items, <<>>, collectionsRepoPath, collections)
    IN  IF file.kind = "unreadable" THEN Thrown("fileReadError")
        ELSE IF file.kind = "invalid" THEN Thrown("parseError")
        ELSE IF Falsy(configJson.id) /\ Falsy(configJson.configId)
        THEN Thrown("Config file missing or has invalid 'id' or 'configId'")
        ELSE IF ~Falsy(configJson.id)
                /\ (~IsString(configJson.id) \/ Trim(configJson.id) = <<>>)
        THEN Thrown("Config file has invalid 'id'")
        ELSE IF Falsy(configJson.id) /\ ~Falsy(configJson.configId)
                /\ (~IsString(configJson.configId) \/ Trim(configJson.configId) = <<>>)
        THEN Thrown("Config file has invalid 'configId'")
        ELSE IF ~Falsy(configJson.title)
                /\ (~IsString(configJson.title) \/ Trim(configJson.title) = <<>>)
        THEN Thrown("Config file has invalid 'title'")
        ELSE IF Falsy(configJson.title) /\ ~Falsy(configJson.configTitle)
                /\ (~IsString(configJson.configTitle)
                    \/ Trim(configJson.configTitle) = <<>>)
        THEN Thrown("Config file has invalid 'configTitle'")
        ELSE IF configJson.prompts.kind # "array"
        THEN Thrown("Config file missing or has invalid 'prompts'")
        ELSE IF ~resolution.ok THEN Thrown(resolution.error)
        ELSE IF configJson.temperature \notin {"undefined", "number"}
        THEN Thrown("Config file has invalid 'temperature'")
        ELSE IF configJson.temperatures \notin {"undefined", "numbers"}
        THEN Thrown("Config file has invalid 'temperatures'")
        ELSE IF configJson.tags \notin {"undefined", "strings"}
        THEN Thrown("Config file has an invalid 'tags' field")
        ELSE Loaded([configJson EXCEPT !.models =
                        [kind |-> "array", items |-> Dedup(resolution.models)]])

\* String.prototype.toLowerCase
ToLowerCase(s) ==
    [i \in 1..Len(s) |->
        IF \E k \in 1..Len(UpperCase) : UpperCase[k] = s[i]
        THEN LowerCase[CHOOSE k \in 1..Len(UpperCase) : UpperCase[k] = s[i]]
        ELSE s[i]]

\* String.prototype.split for a one-character separator
RECURSIVE Split(_, _)
Split(s, sep) ==
    IF IndexOf(s, sep) = 0 THEN <<s>>
    ELSE <<SubSeq(s, 1, IndexOf(s, sep) - 1)>> \o Split(Drop(s, IndexOf(s, sep)), sep)

EmbeddingChars == <<"e", "m", "b", "e", "d", "d", "i", "n", "g">>

LlmCoverageChars == <<"l", "l", "m", "-", "c", "o", "v", "e", "r", "a", "g", "e">>

AllChars == <<"a", "l", "l">>

IsNonEmpty(m) == m # <<>>

IsValidMethod(m) == m \in {EmbeddingChars, LlmCoverageChars}

MethodOf(m) == IF m = EmbeddingChars THEN "embedding" ELSE "llm-coverage"

\* parseEvalMethods returning both methods only when 'all' is the sole token.
parseEvalMethods_AllAlone(evalMethodString) ==
    LET tokens == Split(evalMethodString, ",")
        methods == SelectSeq([i \in 1..Len(tokens) |-> ToLowerCase(Trim(tokens[i]))],
                             IsNonEmpty)
        valid == SelectSeq(methods, IsValidMethod)
        chosenMethods == [i \in 1..Len(valid) |-> MethodOf(valid[i])]
    IN  IF Falsy(evalMethodString) THEN <<"embedding">>
        ELSE IF methods = <<AllChars>> THEN <<"embedding", "llm-coverage">>
        ELSE IF Len(chosenMethods) = 0 THEN <<"embedding">>
        ELSE chosenMethods

parseEvalMethods(evalMethodString) ==
    LET tokens == Split(evalMethodString, ",")
        methods == SelectSeq([i \in 1..Len(tokens) |-> ToLowerCase(Trim(tokens[i]))],
                             IsNonEmpty)
        valid == SelectSeq(methods, IsValidMethod)
        chosenMethods == [i \in 1..Len(valid) |-> MethodOf(valid[i])]
    IN  IF Falsy(evalMethodString) THEN <<"embedding">>
        ELSE IF AllChars \in Range(methods) THEN <<"embedding", "llm-coverage">>
        ELSE IF Len(chosenMethods) = 0 THEN <<"embedding">>
        ELSE chosenMethods

\* generateConfigContentHash(config): a digest of the resolved Configuration,
\* one token that no two different contents share
generateConfigContentHash(cfg) == <<ToString(cfg)>>

\* FinalRunLabel without the trim() of line 402.
FinalRunLabel_Untrimmed(options, contentHash) ==
    IF ~Falsy(options.runLabel) THEN options.runLabel \o <<"_">> \o contentHash
    ELSE contentHash

\* FinalRunLabel with the content hash left out when a label is supplied.
FinalRunLabel_LabelAlone(options, contentHash) ==
    IF options.runLabel # Absent /\ ~Falsy(Trim(options.runLabel))
    THEN Trim(options.runLabel)
    ELSE contentHash

\* finalRunLabel of actionV2
FinalRunLabel(options, contentHash) ==
    LET runLabel == IF options.runLabel = Absent THEN Absent
                    ELSE Trim(options.runLabel)
    IN  IF ~Falsy(runLabel) THEN runLabel \o <<"_">> \o contentHash
        ELSE contentHash

ModelA == <<"a", ":", "x">>

ModelB == <<"b", ":", "y">>

Core == <<"C", "O", "R", "E">>

ModelsArray(items) == [kind |-> "array", items |-> items]

\* the models field of a blueprint: missing, not an array, and arrays that
\* are empty, have duplicates, placeholders or entries that are no strings
ModelsFields ==
    {[kind |-> "undefined", items |-> <<>>], [kind |-> "object", items |-> <<>>]}
    \cup {ModelsArray(items) : items \in
            {<<>>, <<ModelA>>, <<ModelB>>, <<ModelA, ModelA>>, <<ModelA, ModelB>>,
             <<ModelA, ModelB, ModelA>>, <<Core>>, <<Core, ModelA>>,
             <<ModelA, NotAString>>, <<NotAString>>}}

CfgChars == <<"c", "f", "g">>

TitleChars == <<"T">>

BaseBlueprint ==
    [id |-> CfgChars, configId |-> Absent, title |-> TitleChars, configTitle |-> Absent,
     models |-> ModelsArray(<<ModelA>>),
     prompts |-> [kind |-> "array", items |-> <<PlainPrompt>>],
     temperature |-> "undefined", temperatures |-> "undefined", tags |-> "undefined"]

Blueprints ==
    {[BaseBlueprint EXCEPT !.models = m] : m \in ModelsFields}
    \cup {[BaseBlueprint EXCEPT !.id = i, !.configId = c] :
            i \in {Absent, <<" ">>, NotAString}, c \in {Absent, CfgChars}}
    \cup {[BaseBlueprint EXCEPT !.title = t, !.configTitle = c] :
            t \in {Absent, <<" ">>}, c \in {Absent, TitleChars}}
    \cup {[BaseBlueprint EXCEPT !.prompts = ps] :
            ps \in {[kind |-> "undefined", items |-> <<>>],
                    [kind |-> "array", items |-> <<IdealPrompt>>]}}
    \cup {[BaseBlueprint EXCEPT !.temperature = "string"],
          [BaseBlueprint EXCEPT !.temperatures = "numbers", !.tags = "strings"],
          [BaseBlueprint EXCEPT !.tags = "other"]}

BlueprintFiles ==
    {[kind |-> "unreadable", json |-> <<>>], [kind |-> "invalid", json |-> <<>>]}
    \cup {[kind |-> "json", json |-> <<b>>] : b \in Blueprints}

\* the collection files under <collectionsRepoPath>/models
CollectionFiles ==
    {<<>>,
     Core :> [kind |-> "unreadable", items |-> <<>>],
     Core :> ModelsArray(<<>>),
     Core :> ModelsArray(<<ModelB, ModelA, ModelB>>),
     Core :> ModelsArray(<<ModelA, NotAString>>)}

RepoPath == <<"r">>

\* the options of one invocation
CliOptions ==
    {[config |-> "f1", runLabel |-> Absent, evalMethod |-> Absent,
      cache |-> "undefined", collectionsRepoPath |-> Absent],
     [config |-> "f2", runLabel |-> Absent, evalMethod |-> AllChars,
      cache |-> "true", collectionsRepoPath |-> RepoPath],
     [config |-> "f1", runLabel |-> <<" ">>, evalMethod |-> Absent,
      cache |-> "undefined", collectionsRepoPath |-> RepoPath],
     [config |-> "f1", runLabel |-> <<" ", "v", "1", " ">>, evalMethod |-> Absent,
      cache |-> "undefined", collectionsRepoPath |-> Absent],
     [config |-> "f2", runLabel |-> <<"v", "1">>,
      evalMethod |-> <<" ", "L", "L", "M", "-", "c", "o", "v", "e", "r", "a", "g", "e",
                       ",", "x">>,
      cache |-> "undefined", collectionsRepoPath |-> RepoPath]}

Runs == {1, 2}

CliEnded(r) == cli[r].pc \in {"invoked", "exited"}

InitCli ==
    /\ PipelineIdle
    /\ codec = CodecIdle
    /\ \E collections \in CollectionFiles :
          cli \in [Runs -> [pc : {"start"}, options : CliOptions, file : BlueprintFiles,
                            collections : {collections}, config : {<<>>},
                            call : {<<>>}, error : {""}]]

\* actionV2 up to the return of loadAndValidateConfig (line 396); a throw is
\* caught at line 553 and ends the process
CliLoad(r) ==
    /\ cli[r].pc = "start"
    /\ r = 1 \/ CliEnded(1)
    /\ LET loaded == loadAndValidateConfig(cli[r].file, cli[r].options.collectionsRepoPath,
                                           cli[r].collections)
       IN  cli' = [cli EXCEPT ![r].pc = IF loaded.ok THEN "loaded" ELSE "exited",
                              ![r].config = loaded.config,
                              ![r].error = loaded.error]
    /\ UNCHANGED <<pipelineVars, codec>>

\* actionV2 from line 397 to the call of executeComparisonPipeline (line 454)
CliInvoke(r) ==
    /\ cli[r].pc = "loaded"
    /\ LET cfg == cli[r].config[1]
           contentHash == generateConfigContentHash(cfg)
           finalRunLabel == FinalRunLabel(cli[r].options, contentHash)
           chosenMethods == parseEvalMethods(cli[r].options.evalMethod)
       IN  IF Len(finalRunLabel) = 0
           THEN cli' = [cli EXCEPT ![r].pc = "exited",
                           ![r].error = "Run label is unexpectedly empty after processing."]
           ELSE IF Len(cfg.models.items) = 0
           THEN cli' = [cli EXCEPT ![r].pc = "exited",
                           ![r].error = "No models to evaluate after resolving collections."]
           ELSE cli' = [cli EXCEPT ![r].pc = "invoked",
                           ![r].call = <<[config |-> cfg, runLabel |-> finalRunLabel,
                                          evalMethods |-> chosenMethods,
                                          useCache |-> cli[r].options.cache]>>]
    /\ UNCHANGED <<pipelineVars, codec>>

NextCli == \E r \in Runs : CliLoad(r) \/ CliInvoke(r)

SpecCli == InitCli /\ [][NextCli]_vars

(***************************************************************************)
(* run_config: from the return of the pipeline to the end of the action    *)
(***************************************************************************)
\* STORAGE_PROVIDER and UPDATE_LOCAL_SUMMARY: 's3' or not, 'true' or not
Environments ==
    [STORAGE_PROVIDER : {Absent, <<"s", "3">>},
     UPDATE_LOCAL_SUMMARY : {Absent, <<"t", "r", "u", "e">>}]

\* What executeComparisonPipeline resolves with: { data, fileName }, the
\* file name null when save failed
PipelineResults ==
    {[data |-> "document", fileName |-> fileName] : fileName \in {<<>>, <<"file">>}}

SummaryEnabled(env) ==
    env.STORAGE_PROVIDER = <<"s", "3">> \/ env.UPDATE_LOCAL_SUMMARY = <<"t", "r", "u", "e">>

\* One invocation, with the fields the second half of the action writes
InitSummary ==
    /\ PipelineIdle
    /\ codec = CodecIdle
    /\ cli \in [{1} -> [pc : {"start"}, options : CliOptions, file : BlueprintFiles,
                        collections : {<<>>}, config : {<<>>}, call : {<<>>},
                        error : {""}, env : Environments, pipelineResult : {<<>>},
                        newResultData : {<<>>}, actualResultFileName : {<<>>},
                        summarySaves : {<<>>}]]

\* executeComparisonPipeline resolves (lines 465-494). Its value is an
\* object, never a string: with the s3 provider the action exits with code
\* 1; otherwise the whole value becomes newResultData and
\* actualResultFileName stays null.
CliPipelineReturns(r) ==
    /\ cli[r].pc = "invoked"
    /\ \E pipelineResult \in PipelineResults :
          IF cli[r].env.STORAGE_PROVIDER = <<"s", "3">>
          THEN cli' = [cli EXCEPT ![r].pc = "exited",
                          ![r].pipelineResult = <<pipelineResult>>,
                          ![r].error = "Pipeline returned data object directly but S3 provider is active"]
          ELSE cli' = [cli EXCEPT ![r].pc = "pipelineDone",
                          ![r].pipelineResult = <<pipelineResult>>,
                          ![r].newResultData = <<pipelineResult>>]
    /\ UNCHANGED <<pipelineVars, codec>>

\* executeComparisonPipeline rejects: the catch of line 495 exits with code 1
CliPipelineThrows(r) ==
    /\ cli[r].pc = "invoked"
    /\ cli' = [cli EXCEPT ![r].pc = "exited", ![r].error = "Comparison pipeline failed"]
    /\ UNCHANGED <<pipelineVars, codec>>

\* Lines 503-550: the summary update, whose errors are caught and logged,
\* then the end of the action
CliUpdateSummary(r) ==
    /\ cli[r].pc = "pipelineDone"
    /\ IF Len(cli[r].newResultData) = 1 /\ SummaryEnabled(cli[r].env)
       THEN \E getHomepageSummary \in {"returns", "throws"} :
               IF getHomepageSummary = "throws" \/ Len(cli[r].actualResultFileName) = 0
               THEN cli' = [cli EXCEPT ![r].pc = "finished",
                               ![r].error = "Failed to update homepage summary manifest"]
               ELSE cli' = [cli EXCEPT ![r].pc = "finished",
                               ![r].summarySaves =
                                   Append(@, [fileName |-> cli[r].actualResultFileName[1],
                                              run |-> cli[r].newResultData[1]])]
       ELSE cli' = [cli EXCEPT ![r].pc = "finished"]
    /\ UNCHANGED <<pipelineVars, codec>>

NextSummary ==
    \/ CliLoad(1)
    \/ CliInvoke(1)
    \/ CliPipelineReturns(1)
    \/ CliPipelineThrows(1)
    \/ CliUpdateSummary(1)

SpecSummary == InitSummary /\ [][NextSummary]_vars

(***************************************************************************)
(* parseEvalMethods over --eval-method strings                             *)
(***************************************************************************)
\* Pieces of an --eval-method string between commas, each with what a
\* reader takes it to name
MethodTokens ==
    {[text |-> EmbeddingChars, means |-> "embedding"],
     [text |-> <<" ", "L", "L", "M", "-", "c", "o", "v", "e", "r", "a", "g", "e", " ">>,
      means |-> "llm-coverage"],
     [text |-> <<"A", "l", "l", " ">>, means |-> "all"],
     [text |-> <<"a", "l", "l", "y">>, means |-> "other"],
     [text |-> <<"e", "m", "b", " ", "e", "d", "d", "i", "n", "g">>, means |-> "other"],
     [text |-> <<" ">>, means |-> "blank"],
     [text |-> <<>>, means |-> "blank"]}

MaxTokens == 3

RECURSIVE JoinTexts(_)
JoinTexts(tokens) ==
    IF Len(tokens) = 0 THEN <<>>
    ELSE IF Len(tokens) = 1 THEN tokens[1].text
    ELSE tokens[1].text \o <<",">> \o JoinTexts(Tail(tokens))

\* The option not given, or the tokens joined by commas
EvalMethodInputs ==
    {[evalMethodString |-> Absent, tokens |-> <<>>]}
        \cup {[evalMethodString |-> JoinTexts(tokens), tokens |-> tokens] :
                 tokens \in SeqsUpTo(MethodTokens, MaxTokens)}

InitEvalMethods ==
    /\ PipelineIdle
    /\ codec = CodecIdle
    /\ \E input \in EvalMethodInputs :
          cli = [pc |-> "start", input |-> input, chosenMethods |-> <<>>]

\* const chosenMethods = parseEvalMethods(options.evalMethod) (line 422)
ParseEvalMethods ==
    /\ cli.pc = "start"
    /\ cli' = [cli EXCEPT !.pc = "parsed",
                  !.chosenMethods = parseEvalMethods(cli.input.evalMethodString)]
    /\ UNCHANGED <<pipelineVars, codec>>

NextEvalMethods == ParseEvalMethods

SpecEvalMethods == InitEvalMethods /\ [][NextEvalMethods]_vars

(***************************************************************************)
(* tagUtils.ts: normalizeTag                                               *)
(***************************************************************************)
\* .replace(/\s+/g, '-'): every run of whitespace becomes one hyphen
RECURSIVE HyphenateWhitespace(_)
HyphenateWhitespace(s) ==
    IF Len(s) = 0 THEN <<>>
    ELSE IF s[1] = " " THEN <<"-">> \o HyphenateWhitespace(TrimStart(s))
    ELSE <<s[1]>> \o HyphenateWhitespace(Tail(s))

IsTagChar(c) == c \in Range(LowerCase) \cup Range(Digits) \cup {"-"}

\* .replace(/[^a-z0-9-]/g, '')
RemoveNonTagChars(s) == SelectSeq(s, IsTagChar)

\* normalizeTag without the final removal of other characters.
normalizeTag_Unfiltered(tag) ==
    IF Falsy(tag) THEN <<>>
    ELSE HyphenateWhitespace(ToLowerCase(Trim(tag)))

normalizeTag(tag) ==
    IF Falsy(tag) THEN <<>>
    ELSE RemoveNonTagChars(HyphenateWhitespace(ToLowerCase(Trim(tag))))

\* Characters of a tag: lower and upper case, a digit, a hyphen, whitespace
\* and punctuation
TagChars == {"a", "B", "3", "-", " ", "_"}

MaxTagLen == 4

\* A missing tag, the empty tag, and every tag of up to MaxTagLen characters
Tags == {Absent, <<>>} \cup SeqsUpTo(TagChars, MaxTagLen)

InitTags ==
    /\ PipelineIdle
    /\ codec = CodecIdle
    /\ \E tag \in Tags : cli = [pc |-> "start", tag |-> tag, once |-> <<>>, twice |-> <<>>]

\* normalizeTag(tag)
NormalizeTag ==
    /\ cli.pc = "start"
    /\ cli' = [cli EXCEPT !.pc = "normalized", !.once = normalizeTag(cli.tag)]
    /\ UNCHANGED <<pipelineVars, codec>>

\* normalizeTag applied to its own result
NormalizeAgain ==
    /\ cli.pc = "normalized"
    /\ cli' = [cli EXCEPT !.pc = "renormalized", !.twice = normalizeTag(cli.once)]
    /\ UNCHANGED <<pipelineVars, codec>>

NextTags == NormalizeTag \/ NormalizeAgain

SpecTags == InitTags /\ [][NextTags]_vars

(***************************************************************************)
(* Properties                                                              *)
(***************************************************************************)
Containers == {allResponsesMap.val[pid] : pid \in Range(allResponsesMap.keys)}

RecordCount ==
    SeqSum([i \in 1..Len(allResponsesMap.keys) |->
        Len(allResponsesMap.val[allResponsesMap.keys[i]].modelResponses.keys)])

Settled(task) == task \in DOMAIN calls /\ calls[task].state \in {"returned", "threw"}

\* The record now stored under the task's key in its prompt's container
StoredRecord(map, task) ==
    map.val[config.prompts[task.p].id].modelResponses.val[calls[task].effectiveId]

HasStoredRecord(map, task) ==
    calls[task].effectiveId
        \in DOMAIN map.val[config.prompts[task.p].id].modelResponses.val

\* C1: once generateAllResponses has returned, the containers hold exactly
\* P*M*Te*S records and no two tasks of one prompt wrote under the same
\* Effective Model ID.
C1_RecordPerTask ==
    pc # "generating" =>
        /\ RecordCount
               = Len(config.prompts) * Len(config.models)
                   * (IF Len(config.temperatures) > 0 THEN Len(config.temperatures) ELSE 1)
                   * (IF Len(config.systems) > 0 THEN Len(config.systems) ELSE 1)
        /\ \A t1, t2 \in DOMAIN calls :
              (t1 # t2 /\ t1.p = t2.p) => calls[t1].effectiveId # calls[t2].effectiveId

\* C2: no evaluate() starts before every generation task has stored its
\* record, aggregation does not start before every chosen evaluator has
\* returned, and no container changes once an evaluator has started.
C2_PhaseBarriers ==
    /\ [](Len(evalLog) > 0 =>
            \A i \in 1..Len(EnqueuedTasks(config)) :
                /\ Settled(EnqueuedTasks(config)[i])
                /\ HasStoredRecord(allResponsesMap, EnqueuedTasks(config)[i]))
    /\ [](Len(saveCalls) > 0 =>
            /\ \A e \in Range(Chosen) :
                  \E i \in 1..Len(evalLog) :
                      evalLog[i].evaluator = e /\ evalLog[i].ended = "returned"
            /\ \A i \in 1..Len(evalLog) : evalLog[i].ended = "returned")
    /\ [][Len(evalLog) > 0 => allResponsesMap' = allResponsesMap]_vars

C2_Witness ==
    /\ pc = "saving"
    /\ Len(evalLog) = 2
    /\ Len(EnqueuedTasks(config)) >= 2
    /\ \E task \in DOMAIN calls : calls[task].state = "threw"

\* C3: the provider calls in flight never exceed the concurrency limit, which
\* is the Configuration's concurrency when given and 10 otherwise.
C3_InFlightBounded ==
    Cardinality({task \in DOMAIN calls : calls[task].state = "pending"})
        <= (IF config.concurrency # 0 THEN config.concurrency ELSE 10)

C3_Witness ==
    /\ config.concurrency = 2
    /\ InFlight = 2
    /\ Len(queue) > 0

\* C4: the step in which a provider call throws stores, under the task's id, a
\* record with hasError, a non-empty errorMessage, a final text wrapping it
\* and a history that is the messages sent followed by exactly one assistant
\* turn; the step rejects nothing and leaves every other task as it was.
C4_FailureRecorded ==
    [][\A task \in DOMAIN calls :
          (calls[task].state = "pending" /\ calls'[task].state = "threw") =>
              LET record == StoredRecord(allResponsesMap', task)
              IN  /\ HasStoredRecord(allResponsesMap', task)
                  /\ record.hasError
                  /\ record.errorMessage.kind = "failed"
                  /\ record.finalAssistantResponseText.kind = "errorWrapped"
                  /\ record.finalAssistantResponseText.err = record.errorMessage
                  /\ Len(record.fullConversationHistory) = Len(calls[task].messages) + 1
                  /\ SubSeq(record.fullConversationHistory, 1, Len(calls[task].messages))
                         = calls[task].messages
                  /\ Last(record.fullConversationHistory)
                         = [role |-> "assistant",
                            content |-> record.finalAssistantResponseText]
                  /\ pc' = pc
                  /\ result' = result
                  /\ queue' = queue
                  /\ \A other \in DOMAIN calls \ {task} : calls'[other] = calls[other]
      ]_vars

\* a call threw, and a sibling started after it stored its record too
C4_Witness ==
    /\ pc = "evaluating"
    /\ \E t1, t2 \in DOMAIN calls :
          /\ calls[t1].state = "threw"
          /\ calls[t2].state = "returned"
          /\ calls[t1].effectiveId # calls[t2].effectiveId
          /\ StoredRecord(allResponsesMap, t1).hasError
          /\ ~StoredRecord(allResponsesMap, t2).hasError

\* C5: when an evaluate() throws the pipeline raises that error, no
\* evaluate() is called afterwards and save is never called.
C5_EvaluatorFailureAborts ==
    /\ [](\A i \in 1..Len(evalLog) :
            evalLog[i].ended = "threw" =>
                /\ i = Len(evalLog)
                /\ pc = "raised"
                /\ result.kind = "raised"
                /\ result.error = evalLog[i].evaluator
                /\ Len(saveCalls) = 0)
    /\ [][pc = "raised" => (evalLog' = evalLog /\ saveCalls' = saveCalls /\ pc' = pc)]_vars

C5_Witness ==
    /\ pc = "raised"
    /\ Len(Chosen) = 2
    /\ Len(evalLog) = 1
    /\ evalLog[1].ended = "threw"

\* C6: when save throws the pipeline returns the built document with
\* fileName null; when save succeeds it returns the name handed to save.
C6_SaveFailureTolerated ==
    \A i \in 1..Len(saveCalls) :
        /\ saveCalls[i].ended = "threw" =>
              /\ pc = "returned"
              /\ result.kind = "returned"
              /\ result.fileName = <<>>
              /\ result.data = <<saveCalls[i].document>>
              /\ result.data[1].effectiveModels
                     = SortedOfSet(EffectiveModelsSet(config, allResponsesMap))
              /\ DOMAIN result.data[1].allFinalAssistantResponses
                     = Range(allResponsesMap.keys)
        /\ saveCalls[i].ended = "returned" =>
              /\ pc = "returned"
              /\ result.kind = "returned"
              /\ result.fileName = <<saveCalls[i].fileName>>
              /\ result.data = <<saveCalls[i].document>>

C6_Witness ==
    /\ pc = "returned"
    /\ saveCalls[1].ended = "threw"
    /\ result.fileName = <<>>
    /\ \E task \in DOMAIN calls : calls[task].state = "threw"

Document == LastSave.document

IdealListed == IDEAL_MODEL_ID \in Range(Document.effectiveModels)

IdealEntries ==
    {pid \in DOMAIN Document.allFinalAssistantResponses :
        IDEAL_MODEL_ID \in DOMAIN Document.allFinalAssistantResponses[pid]}

GaveIdeal(prompt) == Len(prompt.idealResponse) = 1 /\ prompt.idealResponse[1] # ""

C8_GeneratedIdRoundTrips ==
    \A task \in DOMAIN calls :
        /\ parseEffectiveModelId(calls[task].effectiveId).baseId = calls[task].modelId
        /\ parseEffectiveModelId(calls[task].effectiveId).temperature
               = <<calls[task].temperature>>

CodecParsed == codec.pc \in {"parsed", "labelled", "labelledParsed"}

CodecLabelled == codec.pc \in {"labelled", "labelledParsed"}

C10_ZeroTemperatureHidden ==
    (CodecLabelled /\ Len(codec.parsed.temperature) = 1) =>
        IF codec.parsed.temperature[1] = 0
        THEN ~Contains(codec.label, <<"T", ":">>)
        ELSE /\ Len(codec.temp) = 1
             /\ Contains(codec.label, <<"T", ":">> \o codec.temp[1].shown \o <<")">>)
             /\ Last(codec.label) = ")"
             /\ SubSeq(codec.label, Len(codec.label) - Len(codec.temp[1].shown) - 2,
                       Len(codec.label))
                    = <<"T", ":">> \o codec.temp[1].shown \o <<")">>

C10_Witness ==
    /\ codec.pc = "labelled"
    /\ Len(codec.hash) = 1
    /\ Len(codec.temp) = 1
    /\ codec.temp[1].text = <<"0", ".", "0">>
    /\ codec.parsed.temperature = <<0>>
    /\ codec.label = codec.base \o <<" ", "(">> \o SysTag(codec.hash[1]) \o <<")">>

\* What precedes the parenthetical of a label, and what follows a character
LabelNamePart(label) ==
    IF IndexOf(label, " ") > 0 THEN SubSeq(label, 1, IndexOf(label, " ") - 1)
    ELSE label

AfterFirst(s, c) == IF IndexOf(s, c) > 0 THEN Drop(s, IndexOf(s, c)) ELSE s

ExpectedParenthetical(c) ==
    LET sysPart == IF Len(c.hash) = 1
                   THEN <<"[", "s", "y", "s", ":">> \o c.hash[1] \o <<"]">> ELSE <<>>
        tempPart == IF Len(c.temp) = 1 /\ c.temp[1].value # 0
                    THEN <<"T", ":">> \o c.temp[1].shown ELSE <<>>
    IN  IF sysPart # <<>> /\ tempPart # <<>>
        THEN <<" ", "(">> \o sysPart \o <<",", " ">> \o tempPart \o <<")">>
        ELSE IF sysPart # <<>> \/ tempPart # <<>>
        THEN <<" ", "(">> \o sysPart \o tempPart \o <<")">>
        ELSE <<>>

\* C12: after its name a label carries " (" [sys:<hash>] ", " T:<temperature>
\* ")" with the entries present in that order, and nothing at all when there
\* is neither; the label made from the parsed object is the same.
C12_Parenthetical ==
    (CodecLabelled /\ codec.base \notin ReservedIds) =>
        /\ LabelNamePart(codec.label) # <<>>
        /\ Drop(codec.label, Len(LabelNamePart(codec.label)))
               = ExpectedParenthetical(codec)

C12_Witness ==
    /\ codec.pc = "labelledParsed"
    /\ codec.order = "tempFirst"
    /\ codec.base = <<"o", ":", "t", "-", "m">>
    /\ codec.hash = <<(<<"1", "a", "2">>)>>
    /\ Len(codec.temp) = 1
    /\ codec.temp[1].value = 50
    /\ codec.label = codec.base \o <<" ", "(", "[", "s", "y", "s", ":", "1", "a", "2", "]",
                                     ",", " ", "T", ":", "0", ".", "5", ")">>

\* C13: the ideal-model base id and its legacy alias both parse to the
\* ideal-model base id and are labelled with it, whatever the options.
C13_IdealUnchanged ==
    (CodecParsed /\ codec.base \in ReservedIds) =>
        /\ codec.parsed.baseId = IDEAL_MODEL_ID_BASE
        /\ CodecLabelled => codec.label = IDEAL_MODEL_ID_BASE

C13_Witness ==
    /\ codec.pc = "labelled"
    /\ codec.base = IDEAL_BENCHMARK
    /\ codec.opts = [hideProvider |-> TRUE, hideModelMaker |-> TRUE]
    /\ codec.label = IDEAL_MODEL_ID_BASE
    /\ codec.label # codec.base

Invoked(r) == r \in DOMAIN cli /\ cli[r].pc = "invoked"

CallOfRun(r) == cli[r].call[1]

\* C14: as claimed, the run label handed to the pipeline is the supplied
\* label, "_" and the content hash when a label was supplied, the content
\* hash alone when none was, and it is never empty.
C14_LabelAsSupplied ==
    \A r \in Runs : Invoked(r) =>
        /\ Len(CallOfRun(r).runLabel) > 0
        /\ CallOfRun(r).runLabel =
              IF cli[r].options.runLabel # Absent
              THEN cli[r].options.runLabel \o <<"_">>
                       \o generateConfigContentHash(CallOfRun(r).config)
              ELSE generateConfigContentHash(CallOfRun(r).config)

\* C14: as amended, the run label handed to the pipeline is the trimmed
\* label, "_" and the content hash when the supplied label is not empty after
\* trimming, the content hash alone otherwise, and it is never empty.
C14_LabelTrimmed ==
    \A r \in Runs : Invoked(r) =>
        /\ Len(CallOfRun(r).runLabel) > 0
        /\ CallOfRun(r).runLabel =
              IF cli[r].options.runLabel # Absent /\ Trim(cli[r].options.runLabel) # <<>>
              THEN Trim(cli[r].options.runLabel) \o <<"_">>
                       \o generateConfigContentHash(CallOfRun(r).config)
              ELSE generateConfigContentHash(CallOfRun(r).config)

C14_Witness ==
    /\ Invoked(1)
    /\ Invoked(2)
    /\ cli[1].options.runLabel = <<" ", "v", "1", " ">>
    /\ SubSeq(CallOfRun(1).runLabel, 1, 3) = <<"v", "1", "_">>
    /\ Len(CallOfRun(1).runLabel) = 4
    /\ cli[2].options.runLabel = Absent
    /\ Len(CallOfRun(2).runLabel) = 1

C20_ModelsResolved ==
    \A r \in Runs : Invoked(r) =>
        LET models == CallOfRun(r).config.models.items
        IN  /\ Len(models) > 0
            /\ \A i \in 1..Len(models), j \in 1..Len(models) :
                  models[i] = models[j] => i = j

C20_Witness ==
    /\ Invoked(1)
    /\ Invoked(2)
    /\ cli[1].file.json[1].models.items = <<ModelA, ModelB, ModelA>>
    /\ CallOfRun(1).config.models.items = <<ModelA, ModelB>>
    /\ cli[2].file.json[1].models.kind = "undefined"
    /\ cli[2].options.collectionsRepoPath = RepoPath
    /\ CallOfRun(2).config.models.items = <<ModelB, ModelA>>

\* The Response Record stored under an effective model id of a prompt
RecordAt(pid, id) == allResponsesMap.val[pid].modelResponses.val[id]

RecordIds(pid) == Range(allResponsesMap.val[pid].modelResponses.keys)

AnyRecordErrored ==
    \E pid \in Range(allResponsesMap.keys) : \E id \in RecordIds(pid) :
        RecordAt(pid, id).hasError

\* C16: the document's errors table has an entry for a prompt and an
\* effective model id exactly when the record stored under them has hasError,
\* the entry is that record's error message, no prompt has an empty table,
\* and the field is absent when no record has hasError.
C16_ErrorsIffHasError ==
    Len(saveCalls) > 0 =>
        IF ~AnyRecordErrored THEN Document.errors = <<>>
        ELSE /\ Len(Document.errors) = 1
             /\ DOMAIN Document.errors[1] \subseteq Range(allResponsesMap.keys)
             /\ \A pid \in DOMAIN Document.errors[1] :
                   /\ DOMAIN Document.errors[1][pid] # {}
                   /\ DOMAIN Document.errors[1][pid] \subseteq RecordIds(pid)
             /\ \A pid \in Range(allResponsesMap.keys) : \A id \in RecordIds(pid) :
                   /\ RecordAt(pid, id).hasError <=>
                         /\ pid \in DOMAIN Document.errors[1]
                         /\ id \in DOMAIN Document.errors[1][pid]
                   /\ RecordAt(pid, id).hasError =>
                         Document.errors[1][pid][id] = RecordAt(pid, id).errorMessage

C16_Witness ==
    /\ Len(saveCalls) > 0
    /\ Len(Document.errors) = 1
    /\ \E pid \in DOMAIN Document.errors[1] :
          /\ \E id \in DOMAIN Document.errors[1][pid] :
                Document.errors[1][pid][id] = MarkersErr
          /\ \E id \in DOMAIN Document.errors[1][pid] :
                Document.errors[1][pid][id].kind = "failed"
          /\ \E id \in RecordIds(pid) : ~RecordAt(pid, id).hasError

Ascending(list) ==
    \A i \in 1..Len(list), j \in 1..Len(list) : i < j => StrLess(list[i], list[j])

\* C17: effectiveModels is strictly ascending and holds exactly the ids that
\* key a record in some container and, when a prompt of the Configuration
\* gave an ideal response, the ideal-model id; promptIds is strictly
\* ascending and holds exactly the keys of the container map.
C17_SortedLists ==
    Len(saveCalls) > 0 =>
        /\ Ascending(Document.effectiveModels)
        /\ Range(Document.effectiveModels) =
              UNION {RecordIds(pid) : pid \in Range(allResponsesMap.keys)}
                  \cup (IF \E i \in 1..Len(config.prompts) : GaveIdeal(config.prompts[i])
                        THEN {IDEAL_MODEL_ID} ELSE {})
        /\ Ascending(Document.promptIds)
        /\ Range(Document.promptIds) = Range(allResponsesMap.keys)

C17_Witness ==
    /\ Len(saveCalls) > 0
    /\ allResponsesMap.keys = <<PromptId(2), PromptId(1)>>
    /\ Document.promptIds = <<PromptId(1), PromptId(2)>>
    /\ Len(Document.effectiveModels) = 2
    /\ Document.effectiveModels[1] = IDEAL_MODEL_ID
    /\ Document.effectiveModels[2] \in RecordIds(PromptId(1))

\* The record a settled task stored, from how its provider call ended
RecordOfOutcome(task) ==
    IF Len(calls[task].outcome.text) = 1
    THEN RecordOfResponse(config, task, calls[task].outcome.text[1])
    ELSE RecordOfFailure(config, task, calls[task].outcome.detail[1])

RECURSIVE StoreInOrder(_, _)
StoreInOrder(tasks, map) ==
    IF Len(tasks) = 0 THEN map
    ELSE StoreInOrder(Tail(tasks), StoreRecord(map, Head(tasks), RecordOfOutcome(Head(tasks))))

\* The containers of the run in which the same provider calls end in the
\* same way and the tasks complete in the order they were enqueued
InOrderMap ==
    StoreInOrder(EnqueuedTasks(config), InitialResponsesMap(config.prompts, EmptyMap))

\* The Evaluation Inputs are those of the run that completes in enqueue order
InputsAsInOrder ==
    pc # "generating" =>
        evaluationInputs = EvaluationInputsOf(config, InOrderMap)

\* The document is, but for its timestamp, the one of the run that completes
\* in enqueue order
DocumentAsInOrder ==
    Len(saveCalls) > 0 =>
        Document = FinalOutput(config, RunLabel, Document.timestamp, InOrderMap,
                               combinedEvaluationResults, evalMethods,
                               storeFullHistory)

\* C18: as claimed, the Evaluation Inputs (the order of effectiveModelIds
\* included) and the document (the record under each key included) are those
\* of the run in which the same calls end the same way and the tasks complete
\* in enqueue order, so that no order of completion changes them.
C18_CompletionOrderIrrelevant ==
    InputsAsInOrder /\ DocumentAsInOrder

\* An optional string field that is undefined or the empty string
LacksNonEmpty(field) == field = <<>> \/ field = <<"">>

\* aggregateAndSaveResults has been entered: generation is over, every chosen
\* evaluator has returned and the pipeline has left the evaluation loop
AggregatorEntered ==
    /\ pc \notin {"generating", "evaluating"}
    /\ evalDone = Len(Chosen)

\* C19: when the Configuration lacks a non-empty id or a non-empty title,
\* save is never called and the pipeline never returns a result; once the
\* Aggregator has been entered the pipeline has raised the identity error
\* to its caller.
C19_MissingIdentityFatal ==
    (LacksNonEmpty(config.id) \/ LacksNonEmpty(config.title)) =>
        /\ saveCalls = <<>>
        /\ pc \notin {"saving", "returned"}
        /\ result.kind # "returned"
        /\ result.data = <<>>
        /\ AggregatorEntered =>
              /\ pc = "raised"
              /\ result.kind = "raised"
              /\ result.error = "identity"

C19_Witness ==
    /\ config.id = <<"cfg">>
    /\ config.title = <<"">>
    /\ AggregatorEntered
    /\ pc = "raised"
    /\ result.error = "identity"
    /\ generatedCount = 2
    /\ saveCalls = <<>>

\* The tasks whose provider call has been made
Started == DOMAIN calls

\* C21: as claimed, the temperature passed to the provider is the listed
\* value when the list is non-empty, else the prompt's own override, else
\* the global temperature, else the default.
C21_TemperaturePrecedence ==
    \A task \in Started :
        LET prompt == config.prompts[task.p]
        IN  calls[task].temperature =
                IF Len(config.temperatures) > 0 THEN config.temperatures[task.t]
                ELSE IF Len(prompt.temperature) = 1 THEN prompt.temperature[1]
                ELSE IF Len(config.temperature) = 1 THEN config.temperature[1]
                ELSE DEFAULT_TEMPERATURE

\* x ?? null
OrNull(sys) == IF sys = SysUndefined THEN SysNull ELSE sys

\* The system prompt the Configuration gives a task, by the stated rule
ResolvedSystem(task) ==
    LET prompt == config.prompts[task.p]
    IN  IF Len(config.systems) > 0 THEN config.systems[task.s]
        ELSE IF prompt.system # SysUndefined THEN prompt.system
        ELSE config.system

\* C22: the system prompt resolved for a task, as its record keeps it, is
\* the task's variant when the Configuration lists system prompts; otherwise
\* the prompt's own override when it defines one (null included), and the
\* global system prompt only when it defines none.
C22_SystemPromptResolution ==
    \A task \in Started :
        Settled(task) =>
            StoredRecord(allResponsesMap, task).systemPromptUsed =
                OrNull(ResolvedSystem(task))

C22_Witness ==
    /\ config.systems = <<>>
    /\ config.system = "G"
    /\ config.prompts[1].system = SysNull
    /\ \E task \in Started :
          /\ Settled(task)
          /\ StoredRecord(allResponsesMap, task).systemPromptUsed = SysNull

SystemMessagesIn(msgs) == {i \in 1..Len(msgs) : msgs[i].role = "system"}

\* C23: the list sent to the provider is the prompt's own messages, with the
\* resolved system prompt prepended as one system-role message exactly when
\* it is non-empty and the prompt's own messages hold no system-role message;
\* a prompt's own system message is never joined by an injected one.
C23_SystemMessagePrepended ==
    \A task \in Started :
        LET own == config.prompts[task.p].messages[1]
            sys == ResolvedSystem(task)
            sent == calls[task].messages
        IN  /\ sent = IF sys \notin {SysUndefined, SysNull, ""} /\ SystemMessagesIn(own) = {}
                      THEN <<[role |-> "system", content |-> Plain(sys)]>> \o own
                      ELSE own
            /\ SystemMessagesIn(own) # {} =>
                  Cardinality(SystemMessagesIn(sent)) = Cardinality(SystemMessagesIn(own))

C23_Witness ==
    \E task \in Started :
        /\ ResolvedSystem(task) = "P"
        /\ SystemMessagesIn(config.prompts[task.p].messages[1]) # {}
        /\ calls[task].messages = OwnSystemMessages

\* The id is base, then [temp:<value>] naming the temperature, then `rest`
TempTagged(id, base, temperature, rest) ==
    LET afterBase == Drop(id, Len(base))
        close == IndexOf(afterBase, "]")
        value == SubSeq(afterBase, Len(TempOpen) + 1, close - 1)
    IN  /\ StartsWith(id, base)
        /\ StartsWith(afterBase, TempOpen)
        /\ IsNumber(value)
        /\ ParseNumber(value) = temperature
        /\ Drop(afterBase, close) = rest

\* C24: as claimed, the id a task stores under is its base model id, then
\* [temp:<value>] for the temperature of its call, then [sp_idx:<index>]
\* exactly when more than one system-prompt variant is listed, and two tasks
\* of one prompt and model get different ids.
C24_EffectiveIdFormat ==
    /\ \A task \in Started :
          TempTagged(calls[task].effectiveId, calls[task].modelId,
                     calls[task].temperature,
                     IF Len(config.systems) > 1
                     THEN SpIdxOpen \o IntStr(task.s - 1) \o <<"]">> ELSE <<>>)
    /\ \A t1, t2 \in Started :
          (t1 # t2 /\ t1.p = t2.p /\ t1.m = t2.m) =>
              calls[t1].effectiveId # calls[t2].effectiveId

\* C24, the parts that do not involve the digits of the temperature
IdShape ==
    \A task \in Started :
        LET id == calls[task].effectiveId
            afterBase == Drop(id, Len(calls[task].modelId))
        IN  /\ StartsWith(afterBase, TempOpen)
            /\ Drop(afterBase, IndexOf(afterBase, "]")) =
                  IF Len(config.systems) > 1
                  THEN SpIdxOpen \o IntStr(task.s - 1) \o <<"]">> ELSE <<>>

\* The system prompt in effect in a message list: the content of its first
\* system-role message, null when it has none
SystemInEffect(msgs) ==
    IF SystemMessagesIn(msgs) = {} THEN Plain(SysNull)
    ELSE msgs[CHOOSE i \in SystemMessagesIn(msgs) :
                  \A j \in SystemMessagesIn(msgs) : i <= j].content

\* C25: as claimed, a record's systemPromptUsed is the content of the
\* system-role message of the list sent to the provider and of the recorded
\* history, and is null exactly when that list holds no system-role message.
C25_SystemPromptUsedInEffect ==
    \A task \in Started :
        Settled(task) =>
            LET record == StoredRecord(allResponsesMap, task)
            IN  /\ Plain(record.systemPromptUsed) = SystemInEffect(calls[task].messages)
                /\ Plain(record.systemPromptUsed) =
                      SystemInEffect(record.fullConversationHistory)

\* The built-in evaluators named in the requested set
Requested == {e \in {"embedding", "llm-coverage"} : \E i \in 1..Len(evalMethods) : evalMethods[i] = e}

\* Every evaluator chosen for the run has returned
EvaluationOver == pc \in {"saving", "returned"} \/ (pc = "raised" /\ result.error = "identity")

\* C26: only requested built-in evaluators run, each at most once, one at a
\* time, embedding before llm-coverage; when the evaluation is over exactly
\* the requested ones have run and returned.
C26_EvaluatorsRun ==
    /\ \A i \in 1..Len(evalLog) : evalLog[i].evaluator \in Requested
    /\ \A i, j \in 1..Len(evalLog) : evalLog[i].evaluator = evalLog[j].evaluator => i = j
    /\ \A i \in 1..(Len(evalLog) - 1) : evalLog[i].ended = "returned"
    /\ \A i, j \in 1..Len(evalLog) :
          (evalLog[i].evaluator = "embedding" /\ evalLog[j].evaluator = "llm-coverage") => i < j
    /\ EvaluationOver =>
          /\ {evalLog[i].evaluator : i \in 1..Len(evalLog)} = Requested
          /\ \A i \in 1..Len(evalLog) : evalLog[i].ended = "returned"

C26_Witness ==
    /\ evalMethods = <<"llm-coverage", "embedding", "llm-coverage">>
    /\ pc = "returned"
    /\ Len(evalLog) = 2
    /\ evalLog[1].evaluator = "embedding"
    /\ evalLog[2].evaluator = "llm-coverage"

\* The evaluate() calls that returned table t, by position in the run
Returners(t) ==
    {i \in 1..Len(evalLog) :
        Len(evalLog[i].results) = 1 /\ t \in DOMAIN evalLog[i].results[1]}

\* The whole value of table t as its last returner gave it, the empty table
\* when no evaluator returned it
LastReturned(t) ==
    IF Returners(t) = {} THEN {}
    ELSE evalLog[CHOOSE i \in Returners(t) : \A j \in Returners(t) : j <= i].results[1][t]

\* C27: every table of the merged bundle is the whole value its last
\* returner gave, or the empty table when none returned it, and the document
\* carries these values.
C27_ShallowMerge ==
    /\ \A t \in Tables : combinedEvaluationResults[t] = LastReturned(t)
    /\ Len(saveCalls) > 0 =>
          /\ \A t \in {"similarityMatrix", "perPromptSimilarities", "llmCoverageScores"} :
                Document.evaluationResults[t] = LastReturned(t)
          /\ Document.extractedKeyPoints = LastReturned("extractedKeyPoints")

C27_Witness ==
    /\ pc = "saving"
    /\ Returners("similarityMatrix") = {1, 2}
    /\ Document.evaluationResults["similarityMatrix"] = {"llm-coverage"}
    /\ Document.evaluationResults["perPromptSimilarities"] = {"embedding"}

\* The external calls made so far: provider calls, evaluate() calls, saves
ExternalCalls == <<SeqSum([i \in 1..Len(EnqueuedTasks(config)) |->
                             IF EnqueuedTasks(config)[i] \in Started
                             THEN calls[EnqueuedTasks(config)[i]].n ELSE 0]),
                   Len(evalLog), Len(saveCalls)>>

\* C28: save is called at most once, only when every generation task has
\* settled and every chosen evaluator has returned, and no external call
\* follows it, a failed save included.
C28_SingleTerminalSave ==
    /\ [](Len(saveCalls) <= 1)
    /\ [](Len(saveCalls) > 0 =>
            /\ \A i \in 1..Len(EnqueuedTasks(config)) : Settled(EnqueuedTasks(config)[i])
            /\ {evalLog[i].evaluator : i \in 1..Len(evalLog)} = Requested
            /\ \A i \in 1..Len(evalLog) : evalLog[i].ended = "returned")
    /\ [][Len(saveCalls) > 0 => ExternalCalls' = ExternalCalls]_vars

C28_Witness ==
    /\ pc = "returned"
    /\ Len(saveCalls) = 1
    /\ saveCalls[1].ended = "threw"
    /\ Len(evalLog) = 2
    /\ Len(EnqueuedTasks(config)) = 2

\* The document without its history field
WithoutHistories(doc) == [f \in DOMAIN doc \ {"fullConversationHistories"} |-> doc[f]]

\* C29: the toggle is on unless STORE_FULL_HISTORY is 'false'; when it is on
\* the document's history table holds the full history of every record of
\* every prompt; when it is off the field is absent; every other field of
\* the document is what it is under any other value of the toggle.
C29_HistoryToggle ==
    Len(saveCalls) > 0 =>
        /\ storeFullHistory # "false" =>
              /\ Len(Document.fullConversationHistories) = 1
              /\ DOMAIN Document.fullConversationHistories[1] = Range(allResponsesMap.keys)
              /\ \A pid \in Range(allResponsesMap.keys) :
                    LET records == allResponsesMap.val[pid].modelResponses
                        table == Document.fullConversationHistories[1][pid]
                    IN  /\ DOMAIN table = Range(records.keys)
                        /\ \A id \in Range(records.keys) :
                              table[id] = records.val[id].fullConversationHistory
        /\ storeFullHistory = "false" => Document.fullConversationHistories = <<>>
        /\ \A env \in EnvValues :
              WithoutHistories(Document) =
                  WithoutHistories(FinalOutput(config, RunLabel, Document.timestamp,
                                               allResponsesMap, combinedEvaluationResults,
                                               evalMethods, env))

C29_Witness ==
    /\ storeFullHistory = "false"
    /\ pc = "returned"
    /\ Document.fullConversationHistories = <<>>
    /\ Len(Document.effectiveModels) = 2
    /\ Len(Document.errors) = 1

\* C30: every task that has started has called the provider once, however
\* the call ended; once generation is over every enqueued task has; and no
\* step calls the provider again for a task.
C30_ProviderCalledOnce ==
    /\ [](\A task \in Started : calls[task].n = 1)
    /\ [](pc # "generating" =>
            \A i \in 1..Len(EnqueuedTasks(config)) :
                /\ EnqueuedTasks(config)[i] \in Started
                /\ calls[EnqueuedTasks(config)[i]].n = 1)
    /\ [][\A task \in Started :
             task \in DOMAIN calls' /\ calls'[task].n = calls[task].n]_vars

C30_Witness ==
    /\ pc = "returned"
    /\ \E t1, t2, t3 \in Started :
          /\ calls[t1].outcome = Returned(OkText)
          /\ calls[t2].outcome = Returned(MarkerText)
          /\ calls[t3].state = "threw"
          /\ calls[t1].n = 1 /\ calls[t2].n = 1 /\ calls[t3].n = 1

\* With task `slow` still pending, a sibling can take a step: the next queued
\* task can start its provider call, or a started sibling can get its answer
\* and store its record
SiblingCanProceed(slow) ==
    \/ ENABLED (StartTask /\ calls'[slow].state = "pending")
    \/ \E other \in Pending \ {slow} :
          ENABLED (/\ ProviderReturns
                   /\ calls'[slow].state = "pending"
                   /\ calls'[other].state = "returned"
                   /\ HasStoredRecord(allResponsesMap', other))

\* Task `slow` is pending and some sibling has not stored its record yet
SiblingsWaitingBeside(slow) ==
    /\ pc = "generating"
    /\ slow \in Pending
    /\ Len(queue) > 0 \/ Pending \ {slow} # {}

\* C31: as claimed, whatever the concurrency limit, while a task is pending
\* the siblings that have not finished can go on.
C31_SlowTaskBlocksNoSibling ==
    \A slow \in Started : SiblingsWaitingBeside(slow) => SiblingCanProceed(slow)

\* C31: as amended, the same for every concurrency limit of at least 2; with
\* a limit of 1 no sibling starts while a task is pending.
C31_SlowTaskBlocksNoSiblingAboveOne ==
    /\ (IF config.concurrency # 0 THEN config.concurrency ELSE 10) >= 2 =>
          \A slow \in Started : SiblingsWaitingBeside(slow) => SiblingCanProceed(slow)
    /\ (config.concurrency = 1 /\ Pending # {}) => ~ENABLED StartTask

C31_Witness ==
    /\ config.concurrency = 2
    /\ Len(queue) > 0
    /\ Cardinality(Pending) = 2
    /\ \E slow \in Pending : SiblingsWaitingBeside(slow) /\ SiblingCanProceed(slow)

\* generateAllResponses has returned with every enqueued task started, its
\* record stored and counted
GenerationComplete ==
    /\ pc # "generating"
    /\ generatedCount = Len(EnqueuedTasks(config))
    /\ \A i \in 1..Len(EnqueuedTasks(config)) :
          /\ Settled(EnqueuedTasks(config)[i])
          /\ HasStoredRecord(allResponsesMap, EnqueuedTasks(config)[i])

\* C32: when every provider call eventually returns or throws, generation
\* eventually completes, and it completes only with every enqueued task
\* started, stored and counted, a failed task having released its slot.
C32_GenerationCompletes ==
    /\ <>GenerationComplete
    /\ [](pc # "generating" => GenerationComplete)

C32_Witness ==
    /\ GenerationComplete
    /\ config.concurrency = 1
    /\ Len(EnqueuedTasks(config)) = 3
    /\ calls[EnqueuedTasks(config)[1]].state = "threw"
    /\ calls[EnqueuedTasks(config)[3]].state = "returned"

\* C33: once generation has completed no step changes the containers: no
\* record is added, removed or replaced and no container's prompt id,
\* initial messages or ideal text changes.
C33_ContainersReadOnlyAfterGeneration ==
    [][pc # "generating" => allResponsesMap' = allResponsesMap]_vars

C33_Witness ==
    /\ pc = "returned"
    /\ allResponsesMap.keys = <<PromptId(2), PromptId(1)>>
    /\ RecordCount = 2
    /\ Len(saveCalls) = 1

\* C34: no step changes the Configuration; every container's initial
\* messages and every prompt context of the document are the prompt's own
\* message list as the Configuration has it, whatever the tasks prepended
\* to their own copies.
C34_ConfigurationNotMutated ==
    /\ [][config' = config]_vars
    /\ [](\A i \in 1..Len(config.prompts) :
            LET prompt == config.prompts[i]
            IN  Len(prompt.messages) = 1 =>
                    /\ allResponsesMap.val[prompt.id].initialMessages = prompt.messages[1]
                    /\ (Len(saveCalls) > 0 /\ Len(prompt.messages[1]) > 0) =>
                          Document.promptContexts[prompt.id].messages = prompt.messages[1])

C34_Witness ==
    /\ pc = "returned"
    /\ config.prompts[1].messages = <<UserMessages>>
    /\ Document.promptContexts[PromptId(1)].messages = UserMessages
    /\ Len(EnqueuedTasks(config)) = 2
    /\ \A i \in 1..2 :
          LET sent == calls[EnqueuedTasks(config)[i]].messages
          IN  Len(sent) = 2 /\ sent[1].role = "system"

\* The Configuration of run r, once loadAndValidateConfig has accepted it
Accepted(r) == cli[r].pc \in {"loaded", "invoked"}

\* C35: as claimed, every Configuration that loadAndValidateConfig accepts,
\* and every one handed to executeComparisonPipeline, has an id and a title
\* that the Aggregator's tests !config.id and !config.title let through.
C35_AcceptedPassesIdentityCheck ==
    \A r \in Runs :
        /\ Accepted(r) =>
              ~Falsy(cli[r].config[1].id) /\ ~Falsy(cli[r].config[1].title)
        /\ cli[r].pc = "invoked" =>
              ~Falsy(cli[r].call[1].config.id) /\ ~Falsy(cli[r].call[1].config.title)

\* C35, for blueprints that give both id and title
IdentityGivenPasses ==
    \A r \in Runs :
        (Accepted(r) /\ ~Falsy(cli[r].file.json[1].id) /\ ~Falsy(cli[r].file.json[1].title)) =>
            ~Falsy(cli[r].config[1].id) /\ ~Falsy(cli[r].config[1].title)

\* The pipeline of run r returned with a file name and summary updating is
\* enabled
PersistedWithSummaryEnabled(r) ==
    /\ Len(cli[r].pipelineResult) = 1
    /\ Len(cli[r].pipelineResult[1].fileName) = 1
    /\ SummaryEnabled(cli[r].env)

\* C36: as claimed, a run whose pipeline returned a file name with summary
\* updating enabled ends without a failure exit, having saved a summary
\* that records the run under that file name.
C36_SummarySavedForPersistedRun ==
    \A r \in DOMAIN cli :
        (cli[r].pc \in {"finished", "exited"} /\ PersistedWithSummaryEnabled(r)) =>
            /\ cli[r].pc = "finished"
            /\ \E i \in 1..Len(cli[r].summarySaves) :
                  cli[r].summarySaves[i].fileName = cli[r].pipelineResult[1].fileName[1]

\* C36: what the action does instead: no summary is ever saved
NoSummarySaved == \A r \in DOMAIN cli : cli[r].summarySaves = <<>>

\* The records stored under id whose systemPromptUsed is not the document's
\* modelSystemPrompts[id]
RecordsDisagreeing(id) ==
    {pid \in Range(allResponsesMap.keys) :
        /\ id \in Range(allResponsesMap.val[pid].modelResponses.keys)
        /\ allResponsesMap.val[pid].modelResponses.val[id].systemPromptUsed
               # Document.modelSystemPrompts[id]}

\* C37: as claimed, in the saved document modelSystemPrompts[id] is the
\* systemPromptUsed of every record stored under id in any prompt's container.
C37_OneSystemPromptPerId ==
    Len(saveCalls) > 0 =>
        \A id \in DOMAIN Document.modelSystemPrompts : RecordsDisagreeing(id) = {}

\* C37: what does hold: modelSystemPrompts[id] is the systemPromptUsed of
\* the record under id in the last container, in the map's order, that has one
ModelSystemPromptOfLastContainer ==
    Len(saveCalls) > 0 =>
        \A id \in DOMAIN Document.modelSystemPrompts :
            \A i \in 1..Len(allResponsesMap.keys) :
                (/\ id \in Range(allResponsesMap.val[allResponsesMap.keys[i]].modelResponses.keys)
                 /\ \A j \in (i + 1)..Len(allResponsesMap.keys) :
                       id \notin Range(allResponsesMap.val[allResponsesMap.keys[j]].modelResponses.keys))
                => allResponsesMap.keys[i] \notin RecordsDisagreeing(id)

IsRecognised(means) == means \in {"embedding", "llm-coverage"}

\* What the tokens of an input name, in input order
Named(input) == [i \in 1..Len(input.tokens) |-> input.tokens[i].means]

\* C38: parseEvalMethods returns a non-empty list of recognised methods:
\* ['embedding'] for an absent or empty string, both methods when a token is
\* 'all' after trimming and lower-casing, otherwise the recognised tokens in
\* input order with the others dropped, and ['embedding'] when none is
\* recognised.
C38_ParseEvalMethods ==
    cli.pc = "parsed" =>
        LET named == Named(cli.input)
            recognised == SelectSeq(named, IsRecognised)
        IN  /\ Len(cli.chosenMethods) > 0
            /\ \A i \in 1..Len(cli.chosenMethods) : IsRecognised(cli.chosenMethods[i])
            /\ cli.input.evalMethodString \in {Absent, <<>>} =>
                  cli.chosenMethods = <<"embedding">>
            /\ "all" \in Range(named) => cli.chosenMethods = <<"embedding", "llm-coverage">>
            /\ ("all" \notin Range(named) /\ Len(recognised) > 0) =>
                  cli.chosenMethods = recognised
            /\ ("all" \notin Range(named) /\ Len(recognised) = 0) =>
                  cli.chosenMethods = <<"embedding">>

C38_Witness ==
    /\ cli.pc = "parsed"
    /\ Named(cli.input) = <<"llm-coverage", "all", "other">>
    /\ cli.chosenMethods = <<"embedding", "llm-coverage">>

\* C39: normalizeTag yields only characters of [a-z0-9-], applying it to
\* its own result changes nothing, and an empty or missing tag yields the
\* empty string.
C39_NormalizeTagIdempotent ==
    /\ cli.pc \in {"normalized", "renormalized"} =>
          /\ \A i \in 1..Len(cli.once) :
                cli.once[i] \in Range(LowerCase) \cup Range(Digits) \cup {"-"}
          /\ cli.tag \in {Absent, <<>>} => cli.once = <<>>
    /\ cli.pc = "renormalized" => cli.twice = cli.once

C39_Witness ==
    /\ cli.pc = "renormalized"
    /\ cli.tag = <<"B", " ", " ", "_">>
    /\ cli.once = <<"b", "-">>
    /\ cli.twice = <<"b", "-">>

=============================================================================
